---------------------------- MODULE Spec2Model ----------------------------
(***************************************************************************)
(* A model of the `property` derive macro (yangby-cryptape/rust-property): *)
(* the annotation parser and the three-level configuration resolver of     *)
(* src/src/parse.rs, with the process-wide crate default and its call      *)
(* counter.                                                                *)
(*                                                                         *)
(* Conventions.  Option<T> is a sequence of length at most one: None is    *)
(* <<>> and Some(x) is <<x>>.  A ParseResult is a record whose err field   *)
(* is "none" for Ok and names the SynError otherwise.  An identifier is a  *)
(* string; Chars gives its characters where the code looks at them.        *)
(***************************************************************************)
EXTENDS Integers, Sequences, FiniteSets, TLC

None == <<>>
Some(x) == <<x>>
IsSome(o) == Len(o) = 1
Unwrap(o) == o[1]

\* F(v), with v evaluated once: `let x = v;` before the code that uses x
Bind(v, F(_)) == CHOOSE y \in {F(x) : x \in {v}} : TRUE

-----------------------------------------------------------------------------
(* Program constants: parse.rs lines 17-27.                                *)

SKIP == "skip"
VISIBILITY_OPTIONS == <<"disable", "public", "crate", "private">>
STRIP_OPTION == <<"strip_option">>
SORT_TYPE_OPTIONS == <<"asc", "desc">>
\* a name-value option is <<key, Option<allowed values>>>
NAME_OPTION == <<"name", None>>
PREFIX_OPTION == <<"prefix", None>>
SUFFIX_OPTION == <<"suffix", None>>
GET_TYPE_OPTIONS == <<"type", Some(<<"auto", "ref", "copy", "clone">>)>>
SET_TYPE_OPTIONS == <<"type", Some(<<"ref", "own", "none", "replace">>)>>

PropertyType == {"Crate", "Container", "Field"}

-----------------------------------------------------------------------------
(* Configuration values.                                                   *)

Name(n) == <<"Name", n>>
Format(p, s) == <<"Format", p, s>>

\* impl Default for FieldConf
FieldConfDefault ==
    [ get  |-> [vis |-> "Crate", name |-> Format("", ""), typ |-> "Auto"],
      set  |-> [vis |-> "Crate", name |-> Format("set_", ""), typ |-> "Ref",
                strip_option |-> FALSE],
      mut_ |-> [vis |-> "Crate", name |-> Format("mut_", "")],
      ord  |-> [number |-> None, sort_type |-> "Ascending"],
      skip |-> FALSE ]

-----------------------------------------------------------------------------
(* Identifiers as characters, for the serial-number word `_<N>`.           *)

Chars(s) ==
    CASE s = "_0"  -> <<"_", "0">>
      [] s = "_1"  -> <<"_", "1">>
      [] s = "_01" -> <<"_", "0", "1">>
      [] s = "_x"  -> <<"_", "x">>
      [] s = "asc" -> <<"a", "s", "c">>
      [] s = "desc" -> <<"d", "e", "s", "c">>
      [] s = "foo" -> <<"f", "o", "o">>
      [] s = "public" -> <<"p", "u", "b", "l", "i", "c">>
      [] s = "private" -> <<"p", "r", "i", "v", "a", "t", "e">>
      [] s = "disable" -> <<"d", "i", "s", "a", "b", "l", "e">>
      [] s = "crate" -> <<"c", "r", "a", "t", "e">>
      [] s = "strip_option" -> <<"s", "t", "r", "i", "p", "_", "o", "p", "t", "i", "o", "n">>
      [] OTHER -> <<"?">>

Digits == <<"0", "1", "2", "3", "4", "5", "6", "7", "8", "9">>
IsDigit(c) == \E d \in 1..10 : Digits[d] = c
DigitVal(c) == (CHOOSE d \in 1..10 : Digits[d] = c) - 1

\* str::parse::<usize>: Some(n) for a non-empty run of decimal digits
RECURSIVE ParseDigits(_, _)
ParseDigits(cs, acc) ==
    IF cs = <<>> THEN Some(acc)
    ELSE IF ~IsDigit(Head(cs)) THEN None
    ELSE ParseDigits(Tail(cs), acc * 10 + DigitVal(Head(cs)))

ParseUsize(cs) == IF cs = <<>> THEN None ELSE ParseDigits(cs, 0)


-----------------------------------------------------------------------------
(* The parsers of single values.  Each returns [err, val] with val an      *)
(* Option.                                                                 *)

Ok(v) == [err |-> "none", val |-> v]
Err(e) == [err |-> e, val |-> None]

\* HashMap::get
MapGet(m, k) == IF k \in DOMAIN m THEN Some(m[k]) ELSE None

\* GetTypeConf::parse_from_input
GetTypeConf_parse_from_input(namevalue_params) ==
    LET t == MapGet(namevalue_params, "type") IN
    CASE t = None -> Ok(None)
      [] t = Some("auto") -> Ok(Some("Auto"))
      [] t = Some("ref") -> Ok(Some("Ref"))
      [] t = Some("copy") -> Ok(Some("Copy_"))
      [] t = Some("clone") -> Ok(Some("Clone_"))
      [] OTHER -> Err("unreachable result")

\* SetTypeConf::parse_from_input
SetTypeConf_parse_from_input(namevalue_params) ==
    LET t == MapGet(namevalue_params, "type") IN
    CASE t = None -> Ok(None)
      [] t = Some("ref") -> Ok(Some("Ref"))
      [] t = Some("own") -> Ok(Some("Own"))
      [] t = Some("none") -> Ok(Some("None_"))
      [] t = Some("replace") -> Ok(Some("Replace"))
      [] OTHER -> Err("unreachable result")

\* VisibilityConf::parse_from_input
VisibilityConf_parse_from_input(input) ==
    CASE input = None -> Ok(None)
      [] input = Some("disable") -> Ok(Some("Disable"))
      [] input = Some("public") -> Ok(Some("Public"))
      [] input = Some("crate") -> Ok(Some("Crate"))
      [] input = Some("private") -> Ok(Some("Private"))
      [] OTHER -> Err("unreachable result")

\* SortTypeConf::parse_from_input
SortTypeConf_parse_from_input(input) ==
    CASE input = None -> Ok(None)
      [] input = Some("asc") -> Ok(Some("Ascending"))
      [] input = Some("desc") -> Ok(Some("Descending"))
      [] OTHER -> Err("unreachable result")

\* MethodNameConf::parse_from_input without the exclusion: `name` wins
MethodNameConf_name_wins(namevalue_params) ==
    LET name_opt == MapGet(namevalue_params, "name")
        prefix_opt == MapGet(namevalue_params, "prefix")
        suffix_opt == MapGet(namevalue_params, "suffix")
    IN  CASE IsSome(name_opt) -> Ok(Some(Name(Unwrap(name_opt))))
          [] IsSome(prefix_opt) \/ IsSome(suffix_opt) ->
                Ok(Some(Format(IF IsSome(prefix_opt) THEN Unwrap(prefix_opt) ELSE "",
                               IF IsSome(suffix_opt) THEN Unwrap(suffix_opt) ELSE "")))
          [] OTHER -> Ok(None)

\* MethodNameConf::parse_from_input that builds a Format only from a prefix
\* and a suffix given together
MethodNameConf_needs_both(namevalue_params) ==
    LET name_opt == MapGet(namevalue_params, "name")
        prefix_opt == MapGet(namevalue_params, "prefix")
        suffix_opt == MapGet(namevalue_params, "suffix")
    IN  IF IsSome(name_opt)
        THEN IF IsSome(prefix_opt) \/ IsSome(suffix_opt)
             THEN Err("do not set prefix or suffix if name was set")
             ELSE Ok(Some(Name(Unwrap(name_opt))))
        ELSE IF IsSome(prefix_opt) /\ IsSome(suffix_opt)
             THEN Ok(Some(Format(Unwrap(prefix_opt), Unwrap(suffix_opt))))
             ELSE Ok(None)

\* MethodNameConf::parse_from_input
MethodNameConf_parse_from_input(namevalue_params) ==
    LET name_opt == MapGet(namevalue_params, "name")
        prefix_opt == MapGet(namevalue_params, "prefix")
        suffix_opt == MapGet(namevalue_params, "suffix")
    IN  IF IsSome(name_opt)
        THEN IF IsSome(prefix_opt) \/ IsSome(suffix_opt)
             THEN Err("do not set prefix or suffix if name was set")
             ELSE Ok(Some(Name(Unwrap(name_opt))))
        ELSE CASE IsSome(prefix_opt) /\ IsSome(suffix_opt) ->
                    Ok(Some(Format(Unwrap(prefix_opt), Unwrap(suffix_opt))))
               [] IsSome(prefix_opt) /\ ~IsSome(suffix_opt) ->
                    Ok(Some(Format(Unwrap(prefix_opt), "")))
               [] ~IsSome(prefix_opt) /\ IsSome(suffix_opt) ->
                    Ok(Some(Format("", Unwrap(suffix_opt))))
               [] OTHER -> Ok(None)

-----------------------------------------------------------------------------
(* The checks of a group's collected parameters.  path_params is a HashSet *)
(* and is walked in its iteration order, which the caller does not choose: *)
(* `order` is that order, a sequence listing the set once.                 *)

SeqContains(seq, x) == \E i \in 1..Len(seq) : seq[i] = x

\* the first word group of `options` that holds word p, 0 when none does
FirstGroupOf(p, options) ==
    IF \E i \in 1..Len(options) : SeqContains(options[i], p)
    THEN CHOOSE i \in 1..Len(options) :
            /\ SeqContains(options[i], p)
            /\ \A j \in 1..(i - 1) : ~SeqContains(options[j], p)
    ELSE 0

RECURSIVE check_path_params_loop(_, _, _)
check_path_params_loop(order, options, result) ==
    IF order = <<>> THEN Ok(result)
    ELSE LET p == Head(order)
             i == FirstGroupOf(p, options)
         IN  IF i = 0 THEN Err("this attribute was unknown")
             ELSE IF IsSome(result[i])
             THEN Err("this kind of attribute has been set twice")
             ELSE check_path_params_loop(Tail(order), options,
                                         [result EXCEPT ![i] = Some(p)])

\* check_path_params without its `result[i].is_some()` test: the word
\* walked last replaces the earlier one
RECURSIVE check_path_params_last_wins_loop(_, _, _)
check_path_params_last_wins_loop(order, options, result) ==
    IF order = <<>> THEN Ok(result)
    ELSE LET p == Head(order)
             i == FirstGroupOf(p, options)
         IN  IF i = 0 THEN Err("this attribute was unknown")
             ELSE check_path_params_last_wins_loop(Tail(order), options,
                                                   [result EXCEPT ![i] = Some(p)])

check_path_params_last_wins(order, options) ==
    check_path_params_last_wins_loop(order, options,
                                     [i \in 1..Len(options) |-> None])

\* check_path_params: on Ok, val is the matched word of each word group
check_path_params(order, options) ==
    check_path_params_loop(order, options, [i \in 1..Len(options) |-> None])

\* the first option of `options` that accepts the pair (n, v): its key is n
\* and, when it lists values, v is one of them
AcceptsPair(opt, n, v) ==
    /\ opt[1] = n
    /\ (IsSome(opt[2]) => SeqContains(Unwrap(opt[2]), v))

\* check_namevalue_params: every walk of the HashMap ends the same way, as
\* its one error carries no more than the offending key: Err when some pair
\* is accepted by no option, else the pairs keyed by option name
check_namevalue_params(params, options) ==
    IF \E n \in DOMAIN params :
          \A i \in 1..Len(options) : ~AcceptsPair(options[i], n, params[n])
    THEN Err("this attribute was unknown")
    ELSE Ok(params)

RECURSIVE parse_from_path_params_loop(_, _, _, _, _)
parse_from_path_params_loop(order, options, prop_type, sort_type, number_opt) ==
    IF order = <<>>
    THEN IF prop_type = "Field" /\ number_opt = None
         THEN Err("no serial number was set")
         ELSE Ok(<<sort_type, number_opt>>)
    ELSE LET s == Head(order) IN
         IF SeqContains(options, s)
         THEN IF IsSome(sort_type)
              THEN Err("this kind of attribute has been set twice")
              ELSE parse_from_path_params_loop(Tail(order), options, prop_type,
                                               Some(s), number_opt)
         ELSE IF Chars(s)[1] = "_"
         THEN IF prop_type # "Field"
              THEN Err("the serial number could not be set as a crate or container attribute")
              ELSE LET n == ParseUsize(Tail(Chars(s))) IN
                   IF IsSome(n)
                   THEN IF IsSome(number_opt)
                        THEN Err("the serial number has been set twice")
                        ELSE parse_from_path_params_loop(Tail(order), options,
                                                         prop_type, sort_type, n)
                   ELSE Err("the serial number should be an unsigned number with a _ prefix")
         ELSE Err("this attribute was unknown")

\* parse_from_path_params that treats every scope as the field scope
parse_from_path_params_any_scope(order, options, prop_type) ==
    parse_from_path_params_loop(order, options, "Field", None, None)

\* OrdFieldConf::parse_from_path_params
parse_from_path_params(order, options, prop_type) ==
    parse_from_path_params_loop(order, options, prop_type, None, None)


-----------------------------------------------------------------------------
(* Annotations.  A nested token of a group is one of                       *)
(*   <<"word", w>>      a bare path, e.g. public, strip_option, _0         *)
(*   <<"nv", k, v>>     k = "v" with a string literal                      *)
(*   <<"nvlit", k>>     k = <literal that is not a string>                 *)
(*   <<"list", w>>      a nested list, w(...)                              *)
(*   <<"lit">>          a literal                                          *)
(* and a syn::NestedMeta of #[property(...)] is a record [form, ident,     *)
(* nested] with form "path" (skip), "list" (get(...)), "namevalue" or      *)
(* "lit".                                                                  *)

MetaPath(w) == [form |-> "path", ident |-> w, nested |-> <<>>]
MetaList(w, nested) == [form |-> "list", ident |-> w, nested |-> nested]
MetaNameValue(w) == [form |-> "namevalue", ident |-> w, nested |-> <<>>]
NestedLit == [form |-> "lit", ident |-> "", nested |-> <<>>]

\* the loop of apply_attrs over list.nested (parse.rs 480-521): the words
\* go to the set path_params, the pairs to the map namevalue_params (here
\* the set of its <<key, value>> entries)
RECURSIVE collect_params(_, _, _)
collect_params(nested, path_params, namevalue_params) ==
    IF nested = <<>>
    THEN [err |-> "none", path_params |-> path_params,
          namevalue_params |-> namevalue_params]
    ELSE LET t == Head(nested)
             fail(e) == [err |-> e, path_params |-> path_params,
                         namevalue_params |-> namevalue_params]
         IN  CASE t[1] = "word" ->
                    IF t[2] \in path_params
                    THEN fail("this attribute has been set twice")
                    ELSE collect_params(Tail(nested), path_params \cup {t[2]},
                                        namevalue_params)
               [] t[1] = "nv" ->
                    IF \E e \in namevalue_params : e[1] = t[2]
                    THEN fail("this attribute has been set twice")
                    ELSE collect_params(Tail(nested), path_params,
                                        namevalue_params \cup {<<t[2], t[3]>>})
               [] t[1] = "nvlit" -> fail("this literal should be a string literal")
               [] t[1] = "list" ->
                    fail("this attribute should be a path or a name-value pair")
               [] OTHER -> fail("this attribute should not be a literal")

\* the entries of namevalue_params as a map
AsMap(entries) ==
    [k \in {e[1] : e \in entries} |-> (CHOOSE e \in entries : e[1] = k)[2]]

\* the iteration orders of a HashSet: the sequences listing it once
Orders(S) ==
    {o \in [1..Cardinality(S) -> S] : \A i, j \in DOMAIN o : i # j => o[i] # o[j]}

Done(conf, e) == [conf |-> conf, err |-> e]

\* apply_attrs, arm "get" (parse.rs 537-558)
apply_get(self, order, namevalue_params) ==
    LET paths == check_path_params(order, <<VISIBILITY_OPTIONS>>) IN
    IF paths.err # "none" THEN Done(self, paths.err) ELSE
    LET namevalues == check_namevalue_params(namevalue_params,
            <<NAME_OPTION, PREFIX_OPTION, SUFFIX_OPTION, GET_TYPE_OPTIONS>>) IN
    IF namevalues.err # "none" THEN Done(self, namevalues.err) ELSE
    LET vis == VisibilityConf_parse_from_input(paths.val[1]) IN
    IF vis.err # "none" THEN Done(self, vis.err) ELSE
    LET c1 == IF IsSome(vis.val) THEN [self EXCEPT !.get.vis = Unwrap(vis.val)]
              ELSE self
        name == MethodNameConf_parse_from_input(namevalues.val)
    IN
    IF name.err # "none" THEN Done(c1, name.err) ELSE
    LET c2 == IF IsSome(name.val) THEN [c1 EXCEPT !.get.name = Unwrap(name.val)]
              ELSE c1
        typ == GetTypeConf_parse_from_input(namevalues.val)
    IN
    IF typ.err # "none" THEN Done(c2, typ.err) ELSE
    Done(IF IsSome(typ.val) THEN [c2 EXCEPT !.get.typ = Unwrap(typ.val)] ELSE c2,
         "none")

\* the set arm with its visibility written to the getter's
apply_set_vis_to_get(self, order, namevalue_params) ==
    LET paths == check_path_params(order, <<VISIBILITY_OPTIONS, STRIP_OPTION>>) IN
    IF paths.err # "none" THEN Done(self, paths.err) ELSE
    LET namevalues == check_namevalue_params(namevalue_params,
            <<NAME_OPTION, PREFIX_OPTION, SUFFIX_OPTION, SET_TYPE_OPTIONS>>) IN
    IF namevalues.err # "none" THEN Done(self, namevalues.err) ELSE
    LET vis == VisibilityConf_parse_from_input(paths.val[1]) IN
    IF vis.err # "none" THEN Done(self, vis.err) ELSE
    LET c1 == IF IsSome(vis.val) THEN [self EXCEPT !.get.vis = Unwrap(vis.val)]
              ELSE self
        name == MethodNameConf_parse_from_input(namevalues.val)
    IN
    IF name.err # "none" THEN Done(c1, name.err) ELSE
    LET c2 == IF IsSome(name.val) THEN [c1 EXCEPT !.set.name = Unwrap(name.val)]
              ELSE c1
        typ == SetTypeConf_parse_from_input(namevalues.val)
    IN
    IF typ.err # "none" THEN Done(c2, typ.err) ELSE
    LET c3 == IF IsSome(typ.val) THEN [c2 EXCEPT !.set.typ = Unwrap(typ.val)]
              ELSE c2
    IN  Done([c3 EXCEPT !.set.strip_option = IsSome(paths.val[2])], "none")

\* apply_attrs, arm "set" (parse.rs 559-581)
apply_set(self, order, namevalue_params) ==
    LET paths == check_path_params(order, <<VISIBILITY_OPTIONS, STRIP_OPTION>>) IN
    IF paths.err # "none" THEN Done(self, paths.err) ELSE
    LET namevalues == check_namevalue_params(namevalue_params,
            <<NAME_OPTION, PREFIX_OPTION, SUFFIX_OPTION, SET_TYPE_OPTIONS>>) IN
    IF namevalues.err # "none" THEN Done(self, namevalues.err) ELSE
    LET vis == VisibilityConf_parse_from_input(paths.val[1]) IN
    IF vis.err # "none" THEN Done(self, vis.err) ELSE
    LET c1 == IF IsSome(vis.val) THEN [self EXCEPT !.set.vis = Unwrap(vis.val)]
              ELSE self
        name == MethodNameConf_parse_from_input(namevalues.val)
    IN
    IF name.err # "none" THEN Done(c1, name.err) ELSE
    LET c2 == IF IsSome(name.val) THEN [c1 EXCEPT !.set.name = Unwrap(name.val)]
              ELSE c1
        typ == SetTypeConf_parse_from_input(namevalues.val)
    IN
    IF typ.err # "none" THEN Done(c2, typ.err) ELSE
    LET c3 == IF IsSome(typ.val) THEN [c2 EXCEPT !.set.typ = Unwrap(typ.val)]
              ELSE c2
    IN  Done([c3 EXCEPT !.set.strip_option = IsSome(paths.val[2])], "none")

\* apply_attrs, arm "mut" (parse.rs 582-598)
apply_mut(self, order, namevalue_params) ==
    LET paths == check_path_params(order, <<VISIBILITY_OPTIONS>>) IN
    IF paths.err # "none" THEN Done(self, paths.err) ELSE
    LET namevalues == check_namevalue_params(namevalue_params,
            <<NAME_OPTION, PREFIX_OPTION, SUFFIX_OPTION>>) IN
    IF namevalues.err # "none" THEN Done(self, namevalues.err) ELSE
    LET vis == VisibilityConf_parse_from_input(paths.val[1]) IN
    IF vis.err # "none" THEN Done(self, vis.err) ELSE
    LET c1 == IF IsSome(vis.val) THEN [self EXCEPT !.mut_.vis = Unwrap(vis.val)]
              ELSE self
        name == MethodNameConf_parse_from_input(namevalues.val)
    IN
    IF name.err # "none" THEN Done(c1, name.err) ELSE
    Done(IF IsSome(name.val) THEN [c1 EXCEPT !.mut_.name = Unwrap(name.val)]
         ELSE c1, "none")

\* apply_attrs, arm "ord" (parse.rs 599-612): namevalue_params is not read
apply_ord(self, order, prop_type) ==
    LET r == parse_from_path_params(order, SORT_TYPE_OPTIONS, prop_type) IN
    IF r.err # "none" THEN Done(self, r.err) ELSE
    LET sort == SortTypeConf_parse_from_input(r.val[1]) IN
    IF sort.err # "none" THEN Done(self, sort.err) ELSE
    LET c1 == IF IsSome(sort.val)
              THEN [self EXCEPT !.ord.sort_type = Unwrap(sort.val)]
              ELSE self
    IN  Done([c1 EXCEPT !.ord.number = r.val[2]], "none")

\* apply_attrs, arm Meta::Path (parse.rs 470-476)
apply_path(self, ident, prop_type) ==
    IF ident = SKIP
    THEN Done([self EXCEPT !.skip = TRUE], "none")
    ELSE Done(self, "this attribute was unknown")

\* apply_attrs, arm Meta::List (parse.rs 477-620)
apply_list(self, meta, prop_type, order) ==
    LET c == collect_params(meta.nested, {}, {}) IN
    IF c.err # "none" THEN Done(self, c.err) ELSE
    IF c.path_params = {} /\ c.namevalue_params = {}
    THEN Done(self, "this attribute should not be empty") ELSE
    LET namevalue_params == AsMap(c.namevalue_params) IN
    CASE meta.ident = "get" -> apply_get(self, order, namevalue_params)
      [] meta.ident = "set" -> apply_set(self, order, namevalue_params)
      [] meta.ident = "mut" -> apply_mut(self, order, namevalue_params)
      [] meta.ident = "ord" -> apply_ord(self, order, prop_type)
      [] OTHER -> Done(self, "unsupport attribute")

\* FieldConf::apply_attrs(&mut self, meta, prop_type): conf is self as the
\* call leaves it, also when it returns Err; `order` is the iteration order
\* of path_params
apply_attrs(self, meta, prop_type, order) ==
    CASE meta.form = "path" -> apply_path(self, meta.ident, prop_type)
      [] meta.form = "list" -> apply_list(self, meta, prop_type, order)
      [] OTHER -> Done(self, "this attribute should not be a name-value pair")

\* parse_nested_meta
parse_nested_meta(conf, nested_meta, prop_type, order) ==
    IF nested_meta.form = "lit"
    THEN Done(conf, "the attribute in nested meta should not be a literal")
    ELSE apply_attrs(conf, nested_meta, prop_type, order)

\* the words a group's path_params holds once collected (any when the
\* collection fails, as nothing walks the set then)
PathParamsOf(nested_meta) ==
    IF nested_meta.form = "list"
    THEN collect_params(nested_meta.nested, {}, {}).path_params
    ELSE {}


-----------------------------------------------------------------------------
(* Attributes and parse_attrs.  A syn::Attribute is a record               *)
(*   [style, is_property, form, nested]                                    *)
(* style "Outer" or "Inner"; is_property: its path is `property`; form the *)
(* shape parse_meta gives it ("path", "list", "namevalue") or "unparsable" *)
(* when parse_meta fails; nested the NestedMetas of a list.                *)

PropertyAttr(nested) ==
    [style |-> "Outer", is_property |-> TRUE, form |-> "list", nested |-> nested]
OtherAttr(form) ==
    [style |-> "Outer", is_property |-> FALSE, form |-> form, nested |-> <<>>]

\* the loop `for nested_meta in list.nested.iter()` of parse_attrs and of
\* CrateConfDef::parse; orders[j] is the iteration order met in the j-th
\* nested meta
RECURSIVE parse_nested_metas(_, _, _, _)
parse_nested_metas(conf, nested, prop_type, orders) ==
    IF nested = <<>> THEN Done(conf, "none")
    ELSE Bind(parse_nested_meta(conf, Head(nested), prop_type, Head(orders)),
              LAMBDA r :
                 IF r.err # "none" THEN r
                 ELSE parse_nested_metas(r.conf, Tail(nested), prop_type, Tail(orders)))

\* the loop `for attr in attrs.iter()` of parse_attrs; orders[i][j] belongs
\* to the j-th nested meta of the i-th attribute
RECURSIVE parse_attrs_loop(_, _, _, _)
parse_attrs_loop(conf, attrs, prop_type, orders) ==
    IF attrs = <<>> THEN Done(conf, "none")
    ELSE LET attr == Head(attrs)
             rest(c) == parse_attrs_loop(c, Tail(attrs), prop_type, Tail(orders))
         IN  IF attr.style # "Outer" THEN rest(conf)
             ELSE CASE attr.form = "unparsable" ->
                         Done(conf, "failed to parse the attributes")
                    [] attr.form = "path" ->
                         IF attr.is_property
                         THEN Done(conf, "the attribute should not be a path")
                         ELSE rest(conf)
                    [] attr.form = "list" ->
                         IF ~attr.is_property THEN rest(conf)
                         ELSE IF attr.nested = <<>>
                         THEN Done(conf, "this attribute should not be empty")
                         ELSE Bind(parse_nested_metas(conf, attr.nested,
                                                      prop_type, Head(orders)),
                                   LAMBDA r : IF r.err # "none" THEN r ELSE rest(r.conf))
                    [] OTHER ->
                         IF attr.is_property
                         THEN Done(conf, "the attribute should not be a name-value pair")
                         ELSE rest(conf)

\* parse_attrs returning its working copy whatever the groups returned
parse_attrs_keeps_conf(conf, attrs, prop_type, orders) ==
    Ok(Some(parse_attrs_loop(conf, attrs, prop_type, orders).conf))

\* parse_attrs(span, conf, attrs, prop_type) -> ParseResult<FieldConf>:
\* Ok(conf) is [err |-> "none", val |-> Some(conf)], Err(e) carries no
\* configuration
parse_attrs(conf, attrs, prop_type, orders) ==
    Bind(parse_attrs_loop(conf, attrs, prop_type, orders),
         LAMBDA r : IF r.err # "none" THEN Err(r.err) ELSE Ok(Some(r.conf)))

\* the iteration orders parse_attrs can meet on attrs: one per nested meta
OrdersOfNested(nested) ==
    {o \in [1..Len(nested) -> UNION {Orders(PathParamsOf(nested[j])) : j \in 1..Len(nested)}] :
        \A j \in 1..Len(nested) : o[j] \in Orders(PathParamsOf(nested[j]))}

OrdersOfAttrs(attrs) ==
    {o \in [1..Len(attrs) -> UNION {OrdersOfNested(attrs[i].nested) : i \in 1..Len(attrs)}] :
        \A i \in 1..Len(attrs) : o[i] \in OrdersOfNested(attrs[i].nested)}


-----------------------------------------------------------------------------
(* State.                                                                  *)

VARIABLES
    CRATE_CONF,     \* static mut CRATE_CONF: Option<FieldConf>
    CALL_COUNT,     \* static CALL_COUNT: AtomicUsize
    INIT_DEFAULT,   \* static INIT_DEFAULT: Once; TRUE once it has run
    last,           \* the last macro invocation: its input and what it returned
    bases,          \* the configurations get_default_conf has handed out
    pc,             \* one parse_attrs call on one group: where it stands
    inherited,      \*   the configuration it was given
    prop_type,      \*   the level it resolves
    meta,           \*   the group
    order,          \*   the iteration order of the group's path_params
    self,           \*   its working copy, the &mut self of apply_attrs
    err,            \*   what apply_attrs returned
    result,         \*   what parse_attrs returned
    property,       \* derive_property: the fields of the parsed type
    classified,     \*   derive_property_for_field: its prop_field_type
    methods,        \*   the methods synthesized so far
    expanded,       \*   what derive_property returned, or its panic
    operands,       \* two values of the type, handed to the generated impls
    verdict,        \*   what the generated eq and partial_cmp returned
    threads         \* concurrent macro invocations: each one's call and position

globals == <<CRATE_CONF, CALL_COUNT, INIT_DEFAULT, last, bases>>
call == <<pc, inherited, prop_type, meta, order, self, err, result>>
derive == <<property, classified, methods, expanded, operands, verdict>>
vars == <<globals, call, derive, threads>>

\* no derive_property under way
NoFieldType == [tag |-> "", inner |-> "", len |-> "", panic |-> ""]
NoExpansion == [panic |-> "", methods |-> <<>>, impl_traits |-> <<>>]
NoVerdict == [eq |-> FALSE, partial_cmp |-> <<>>]
DeriveIdle ==
    /\ property = <<>>
    /\ classified = NoFieldType
    /\ methods = <<>>
    /\ expanded = NoExpansion
    /\ operands = <<>>
    /\ verdict = NoVerdict

-----------------------------------------------------------------------------
(* One group through parse_attrs: the inputs.                              *)

MaxTokens == 3

Word(w) == <<"word", w>>
NV(k, v) == <<"nv", k, v>>

\* tokens of the get, set and mut groups: the visibility words, the set
\* group's flag, the name keys, and `type` with a value only get knows
\* (auto) and one only set knows (own)
AccessorTokens ==
    { Word("public"), Word("private"), Word("strip_option"),
      NV("name", "x"), NV("prefix", "p"), NV("suffix", "s"),
      NV("type", "auto"), NV("type", "own") }

\* tokens of the ord group: the directions, serial numbers, a word and a
\* pair that ord does not know
OrdTokens ==
    { Word("asc"), Word("desc"), Word("_0"), Word("_1"), Word("_01"),
      Word("public"), NV("foo", "v") }

\* every token, among them the ones no group takes
AllTokens ==
    AccessorTokens \cup OrdTokens \cup
    { Word("disable"), Word("crate"), Word("foo"), Word("_x"),
      NV("type", "ref"), NV("type", "copy"), NV("type", "clone"),
      NV("type", "none"), NV("type", "replace"), NV("type", "zzz"),
      <<"nvlit", "name">>, <<"list", "foo">>, <<"lit">> }

SeqsUpTo(S, n) == UNION {[1..k -> S] : k \in 0..n}

Groups == {"get", "set", "mut", "ord"}

\* the NestedMetas tried: every group with up to MaxTokens of its tokens in
\* every written order, every group (and an unknown one) with any single
\* token, and the metas that are no list
Metas ==
    {MetaList(g, ts) : g \in {"get", "set", "mut"}, ts \in SeqsUpTo(AccessorTokens, MaxTokens)}
    \cup {MetaList("ord", ts) : ts \in SeqsUpTo(OrdTokens, MaxTokens)}
    \cup {MetaList(g, <<t>>) : g \in Groups \cup {"bar"}, t \in AllTokens}
    \cup {MetaPath(SKIP), MetaPath("foo"), MetaNameValue("get"), NestedLit}

\* a container configuration that differs from the built-in default in every
\* value a container can set: that of
\*   #[property(get(private, name = "g", type = "clone"),
\*              set(public, strip_option, prefix = "with_", type = "own"),
\*              mut(disable, suffix = "_mut"), ord(desc))]
OverridingConf ==
    [ get  |-> [vis |-> "Private", name |-> Name("g"), typ |-> "Clone_"],
      set  |-> [vis |-> "Public", name |-> Format("with_", ""), typ |-> "Own",
                strip_option |-> TRUE],
      mut_ |-> [vis |-> "Disable", name |-> Format("", "_mut")],
      ord  |-> [number |-> None, sort_type |-> "Descending"],
      skip |-> FALSE ]

InheritedConfs == {FieldConfDefault, OverridingConf}

\* no concurrent invocation under way
NoThreads == threads = <<>>

NoMeta == MetaList("", <<>>)
NoResult == [err |-> "", val |-> None]

GlobalsInit ==
    /\ CRATE_CONF = None
    /\ CALL_COUNT = 0
    /\ INIT_DEFAULT = FALSE
    /\ last = [op |-> "none"]
    /\ bases = {}

ApplyInit ==
    /\ GlobalsInit
    /\ NoThreads
    /\ pc = "called"
    /\ inherited \in InheritedConfs
    /\ prop_type \in PropertyType
    /\ meta \in Metas
    /\ order = <<>>
    /\ self = inherited
    /\ err = ""
    /\ result = NoResult
    /\ DeriveIdle

\* parse_attrs reaches parse_nested_meta for the group: apply_attrs runs on
\* the working copy
Apply ==
    /\ pc = "called"
    /\ \E o \in Orders(PathParamsOf(meta)) :
          \E r \in {parse_nested_meta(self, meta, prop_type, o)} :
          /\ order' = o
          /\ self' = r.conf
          /\ err' = r.err
    /\ pc' = "applied"
    /\ UNCHANGED <<threads, globals, inherited, prop_type, meta, result, derive>>

\* parse_attrs returns: the error, or the working copy
Return ==
    /\ pc = "applied"
    /\ result' = parse_attrs(inherited, <<PropertyAttr(<<meta>>)>>, prop_type,
                             <<<<order>>>>)
    /\ pc' = "returned"
    /\ UNCHANGED <<threads, globals, inherited, prop_type, meta, order, self, err, derive>>

ApplyNext == Apply \/ Return

SpecApply == ApplyInit /\ [][ApplyNext]_vars


-----------------------------------------------------------------------------
(* The crate default and the resolution of a type (parse.rs 128-243).      *)

\* CrateConfDef::parse: the groups of the crate-default annotation applied
\* to the built-in default at crate level; Ok carries CrateConfDef { conf }
CrateConfDef_parse(nested, orders) ==
    Bind(parse_nested_metas(FieldConfDefault, nested, "Crate", orders),
         LAMBDA r : IF r.err # "none" THEN Err(r.err) ELSE Ok(Some(r.conf)))

PANIC_SET_TWICE ==
    "The default property for the whole crate should be set only once for each crate."
PANIC_SET_LATE ==
    "Some properties of containers or fields was set before the default property for the whole crate has been taken effect."

\* set_default_conf with its tests swapped for one on the Once alone: a
\* second call is a silent no-op, and CALL_COUNT is not looked at
set_default_conf_once_only(crate_conf, call_count, init_default, conf) ==
    IF init_default
    THEN [CRATE_CONF |-> crate_conf, INIT_DEFAULT |-> init_default, err |-> "none"]
    ELSE [CRATE_CONF |-> Some(conf), INIT_DEFAULT |-> TRUE, err |-> "none"]

\* set_default_conf without its test of CALL_COUNT
set_default_conf_ignores_count(crate_conf, call_count, init_default, conf) ==
    IF IsSome(crate_conf)
    THEN [CRATE_CONF |-> crate_conf, INIT_DEFAULT |-> init_default,
          err |-> PANIC_SET_TWICE]
    ELSE IF ~init_default
    THEN [CRATE_CONF |-> Some(conf), INIT_DEFAULT |-> TRUE, err |-> "none"]
    ELSE [CRATE_CONF |-> crate_conf, INIT_DEFAULT |-> init_default, err |-> "none"]

\* CrateConfDef::set_default_conf(self): a panic is err, and leaves the
\* statics as they were; call_once runs its closure only the first time
set_default_conf(crate_conf, call_count, init_default, conf) ==
    IF IsSome(crate_conf)
    THEN [CRATE_CONF |-> crate_conf, INIT_DEFAULT |-> init_default,
          err |-> PANIC_SET_TWICE]
    ELSE IF call_count > 0
    THEN [CRATE_CONF |-> crate_conf, INIT_DEFAULT |-> init_default,
          err |-> PANIC_SET_LATE]
    ELSE IF ~init_default
    THEN [CRATE_CONF |-> Some(conf), INIT_DEFAULT |-> TRUE, err |-> "none"]
    ELSE [CRATE_CONF |-> crate_conf, INIT_DEFAULT |-> init_default, err |-> "none"]

\* a fetch_add that adds nothing
CALL_COUNT_fetch_add_nothing(call_count) == call_count

\* CrateConfDef::get_default_conf: CALL_COUNT.fetch_add(1, SeqCst), the
\* value CALL_COUNT is left with
CALL_COUNT_fetch_add(call_count) == call_count + 1

\* CrateConfDef::get_default_conf, the value returned
get_default_conf(crate_conf) ==
    IF IsSome(crate_conf) THEN Unwrap(crate_conf) ELSE FieldConfDefault

\* parse_named_fields handing each field the configuration the field before
\* it resolved to, instead of a clone of the container's
RECURSIVE parse_named_fields_no_clone_loop(_, _, _, _)
parse_named_fields_no_clone_loop(named_fields, conf, orders, fields) ==
    IF named_fields = <<>>
    THEN IF fields = <<>> THEN Err("nothing can do for an empty struct")
         ELSE Ok(fields)
    ELSE Bind(parse_attrs(conf, Head(named_fields).attrs, "Field", Head(orders)),
              LAMBDA r :
                 IF r.err # "none" THEN Err(r.err)
                 ELSE parse_named_fields_no_clone_loop(
                          Tail(named_fields), Unwrap(r.val), Tail(orders),
                          Append(fields, Unwrap(r.val))))

parse_named_fields_no_clone(named_fields, conf, orders) ==
    parse_named_fields_no_clone_loop(named_fields, conf, orders, <<>>)

RECURSIVE parse_named_fields_loop(_, _, _, _)
parse_named_fields_loop(named_fields, conf, orders, fields) ==
    IF named_fields = <<>>
    THEN IF fields = <<>> THEN Err("nothing can do for an empty struct")
         ELSE Ok(fields)
    ELSE Bind(parse_attrs(conf, Head(named_fields).attrs, "Field", Head(orders)),
              LAMBDA r :
                 IF r.err # "none" THEN Err(r.err)
                 ELSE parse_named_fields_loop(Tail(named_fields), conf, Tail(orders),
                                              Append(fields, Unwrap(r.val))))

\* FieldDef::parse_named_fields: Ok carries the fields' configurations in
\* declaration order
parse_named_fields(named_fields, conf, orders) ==
    parse_named_fields_loop(named_fields, conf, orders, <<>>)

\* ContainerDef::parse on a DeriveInput [data, attrs, fields]: err, the
\* container's configuration (a local of parse) and the fields'
\* configurations when it got that far, the configuration
\* get_default_conf returned, and CALL_COUNT as the call leaves it
ContainerDef_parse(crate_conf, call_count, input, attr_orders, field_orders) ==
    LET out(e, base, conf, fields, count) ==
            [err |-> e, base |-> base, conf |-> conf, fields |-> fields,
             CALL_COUNT |-> count]
    IN
    CASE input.data = "struct_named" ->
            LET base == get_default_conf(crate_conf)
                count == CALL_COUNT_fetch_add(call_count)
            IN  Bind(parse_attrs(base, input.attrs, "Container", attr_orders),
                     LAMBDA c :
                        IF c.err # "none" THEN out(c.err, Some(base), None, <<>>, count)
                        ELSE Bind(parse_named_fields(input.fields, Unwrap(c.val),
                                                     field_orders),
                                  LAMBDA f :
                                     IF f.err # "none"
                                     THEN out(f.err, Some(base), c.val, <<>>, count)
                                     ELSE out("none", Some(base), c.val, f.val, count)))
      [] input.data \in {"struct_unnamed", "struct_unit"} ->
            out("only support named fields", None, None, <<>>, call_count)
      [] OTHER -> out("only support structs", None, None, <<>>, call_count)

-----------------------------------------------------------------------------
(* The macro invocations of one compilation: the inputs.                   *)

MaxFields == 2
MaxCalls == 2

\* the arguments of the crate-default annotation
CrateArgs ==
    { <<>>,
      <<MetaList("set", <<Word("strip_option")>>), MetaList("get", <<Word("public")>>)>>,
      <<MetaPath(SKIP)>>,
      <<MetaList("get", <<Word("public"), Word("public")>>)>> }

\* the attributes of a type
ContainerAttrs ==
    { <<>>,
      << OtherAttr("path"),
         PropertyAttr(<<MetaList("get", <<Word("disable")>>),
                        MetaList("mut", <<Word("public")>>)>>),
         PropertyAttr(<<MetaList("get", <<NV("name", "g")>>)>>) >>,
      <<PropertyAttr(<<MetaPath(SKIP)>>)>>,
      <<PropertyAttr(<<MetaList("ord", <<Word("_0")>>)>>)>> }

\* the attributes of a field
FieldAttrs ==
    { <<>>,
      << PropertyAttr(<<MetaList("get", <<Word("public")>>),
                        MetaList("set", <<Word("disable")>>)>>),
         PropertyAttr(<<MetaList("get", <<Word("private"), NV("type", "copy")>>)>>) >>,
      <<PropertyAttr(<<MetaPath(SKIP)>>)>>,
      <<PropertyAttr(<<MetaList("mut", <<NV("name", "m"), NV("prefix", "p")>>)>>)>> }

DeriveInputs ==
    {[data |-> "struct_named", attrs |-> a, fields |-> fs] :
        a \in ContainerAttrs,
        fs \in SeqsUpTo({[attrs |-> fa] : fa \in FieldAttrs}, MaxFields)}
    \cup {[data |-> d, attrs |-> a, fields |-> <<>>] :
            d \in {"struct_unnamed", "enum"}, a \in {<<>>}}

FieldOrders(fields) ==
    {o \in [1..Len(fields) -> UNION {OrdersOfAttrs(fields[i].attrs) : i \in 1..Len(fields)}] :
        \A i \in 1..Len(fields) : o[i] \in OrdersOfAttrs(fields[i].attrs)}

\* no parse_attrs call under way
NoCall ==
    /\ inherited = FieldConfDefault
    /\ prop_type = "Crate"
    /\ meta = NoMeta
    /\ order = <<>>
    /\ self = FieldConfDefault
    /\ err = ""
    /\ result = NoResult

CallIdle ==
    /\ pc = "idle"
    /\ inherited = FieldConfDefault
    /\ prop_type = "Crate"
    /\ meta = NoMeta
    /\ order = <<>>
    /\ self = FieldConfDefault
    /\ err = ""
    /\ result = NoResult

Init == GlobalsInit /\ CallIdle /\ DeriveIdle /\ NoThreads

\* the crate-default annotation is parsed; nothing is stored yet
ParseCrateConf ==
    \E nested \in CrateArgs : \E o \in OrdersOfNested(nested) :
        \E r \in {CrateConfDef_parse(nested, o)} :
        /\ last' = [op |-> "CrateConfDef::parse", input |-> nested,
                    err |-> r.err, conf |-> r.val]
        /\ UNCHANGED <<CRATE_CONF, CALL_COUNT, INIT_DEFAULT, bases, call, derive, threads>>

\* set_default_conf on a CrateConfDef that CrateConfDef::parse returned
SetDefaultConf ==
    \E nested \in CrateArgs : \E o \in OrdersOfNested(nested) :
        \E def \in {CrateConfDef_parse(nested, o)} :
        /\ def.err = "none"
        /\ \E r \in {set_default_conf(CRATE_CONF, CALL_COUNT, INIT_DEFAULT,
                                      Unwrap(def.val))} :
               /\ CRATE_CONF' = r.CRATE_CONF
               /\ INIT_DEFAULT' = r.INIT_DEFAULT
               /\ last' = [op |-> "set_default_conf", input |-> Unwrap(def.val),
                           err |-> r.err]
        /\ UNCHANGED <<CALL_COUNT, bases, call, derive, threads>>

\* a type is resolved: ContainerDef::parse
ParseContainer ==
    \E input \in DeriveInputs :
    \E ao \in OrdersOfAttrs(input.attrs), fo \in FieldOrders(input.fields) :
        \E r \in {ContainerDef_parse(CRATE_CONF, CALL_COUNT, input, ao, fo)} :
        /\ r.CALL_COUNT <= MaxCalls
        /\ CALL_COUNT' = r.CALL_COUNT
        /\ bases' = bases \cup {r.base[i] : i \in 1..Len(r.base)}
        /\ last' = [op |-> "ContainerDef::parse", input |-> input, err |-> r.err,
                    base |-> r.base, conf |-> r.conf, fields |-> r.fields]
        /\ UNCHANGED <<CRATE_CONF, INIT_DEFAULT, call, derive, threads>>

Next == ParseCrateConf \/ SetDefaultConf \/ ParseContainer

Spec == Init /\ [][Next]_vars

-----------------------------------------------------------------------------
(* Declared field types.  A syn::Type is a record: kind "path" with its    *)
(* segments (each an ident and its PathArguments: form "None",             *)
(* "AngleBracketed" or "Parenthesized", and the generic arguments, each    *)
(* <<"Type" | "Lifetime" | "Const", tokens>>), kind "array" with the       *)
(* element's and the length's tokens, or another kind (reference, tuple).  *)
(* text is the type as quote! prints it.                                   *)

PathArgumentsNone == [form |-> "None", args |-> <<>>]
AngleBracketed(args) == [form |-> "AngleBracketed", args |-> args]
Parenthesized(args) == [form |-> "Parenthesized", args |-> args]
PathSegment(ident, arguments) == [ident |-> ident, arguments |-> arguments]
TypePath(segments, text) ==
    [kind |-> "path", segments |-> segments, elem |-> "", len |-> "", text |-> text]
TypeArray(elem, len, text) ==
    [kind |-> "array", segments |-> <<>>, elem |-> elem, len |-> len, text |-> text]
TypeOther(kind, text) ==
    [kind |-> kind, segments |-> <<>>, elem |-> "", len |-> "", text |-> text]

\* quote!(#args) of a Punctuated list of generic arguments
RECURSIVE QuoteArgs(_)
QuoteArgs(args) ==
    IF args = <<>> THEN ""
    ELSE IF Len(args) = 1 THEN args[1][2]
    ELSE args[1][2] \o " , " \o QuoteArgs(Tail(args))

\* enum FieldType: the tag and what the variant carries (inner: the tokens
\* of the element or argument type; len: an array's length)
FieldType(tag, inner, len) == [tag |-> tag, inner |-> inner, len |-> len, panic |-> ""]
\* a panic of the classifier, in place of a value
FieldTypePanic(msg) == [tag |-> "panic", inner |-> "", len |-> "", panic |-> msg]

UNREACHABLE == "internal error: entered unreachable code"
INDEX_OUT_OF_BOUNDS == "index out of bounds"

NumberNames ==
    {"f32", "f64", "i8", "i16", "i32", "i64", "i128", "isize",
     "u8", "u16", "u32", "u64", "u128", "usize"}

\* FieldType::from_type
FieldType_from_type(ty) ==
    CASE ty.kind = "path" ->
            IF Len(ty.segments) = 1
            THEN LET ident == ty.segments[1].ident
                     arguments == ty.segments[1].arguments
                 IN  CASE ident \in NumberNames -> FieldType("Number", "", "")
                       [] ident = "bool" -> FieldType("Boolean", "", "")
                       [] ident = "char" -> FieldType("Character", "", "")
                       [] ident = "String" -> FieldType("String_", "", "")
                       [] ident = "Vec" ->
                             IF arguments.form = "AngleBracketed"
                             THEN IF arguments.args = <<>>
                                  THEN FieldTypePanic(INDEX_OUT_OF_BOUNDS)
                                  ELSE IF arguments.args[1][1] = "Type"
                                  THEN FieldType("Vector", arguments.args[1][2], "")
                                  ELSE FieldTypePanic(UNREACHABLE)
                             ELSE FieldTypePanic(UNREACHABLE)
                       [] ident = "Option" ->
                             IF arguments.form = "AngleBracketed"
                             THEN FieldType("Option_", QuoteArgs(arguments.args), "")
                             ELSE FieldTypePanic(UNREACHABLE)
                       [] OTHER -> FieldType("Unhandled", "", "")
            ELSE FieldType("Unhandled", "", "")
      [] ty.kind = "array" -> FieldType("Array", ty.elem, ty.len)
      [] OTHER -> FieldType("Unhandled", "", "")

-----------------------------------------------------------------------------

(* Synthesis of one field's methods.  A method is a record of the tokens   *)
(* quote! is given: visibility, name, generics, inputs, output and body.   *)

\* enum GetType: the tag and the tokens the variant carries
GetType(tag, inner) == [tag |-> tag, inner |-> inner]

\* GetType::from_field_type handing out a plain reference for a Vec
GetType_from_field_type_vec_ref(ty) ==
    CASE ty.tag \in {"Number", "Boolean", "Character"} -> GetType("Copy_", "")
      [] ty.tag = "String_" -> GetType("String_", "")
      [] ty.tag = "Array" -> GetType("Slice", "[" \o ty.inner \o "]")
      [] ty.tag = "Option_" -> GetType("Option_", ty.inner)
      [] OTHER -> GetType("Ref", "")

\* GetType::from_field_type
GetType_from_field_type(ty) ==
    CASE ty.tag \in {"Number", "Boolean", "Character"} -> GetType("Copy_", "")
      [] ty.tag = "String_" -> GetType("String_", "")
      [] ty.tag = "Array" -> GetType("Slice", "[" \o ty.inner \o "]")
      [] ty.tag = "Vector" -> GetType("Slice", "[" \o ty.inner \o "]")
      [] ty.tag = "Option_" -> GetType("Option_", ty.inner)
      [] OTHER -> GetType("Ref", "")

\* VisibilityConf::to_ts
VisibilityConf_to_ts(vis) ==
    CASE vis = "Disable" -> None
      [] vis = "Public" -> Some("pub")
      [] vis = "Crate" -> Some("pub(crate)")
      [] OTHER -> Some("")

\* MethodNameConf::complete
MethodNameConf_complete(name, field_name) ==
    IF name[1] = "Name" THEN name[2]
    ELSE name[2] \o field_name \o name[3]

Method(kind, visibility, method_name, generics, inputs, output, body) ==
    [kind |-> kind, visibility |-> visibility, name |-> method_name,
     generics |-> generics, inputs |-> inputs, output |-> output, body |-> body]

\* derive_property_for_field, the getter (lib.rs 115-157); the mode
\* GetTypeConf::Auto of parse.rs is the one lib.rs matches as NotSet
derive_getter(field, prop_field_type) ==
    LET visibility == VisibilityConf_to_ts(field.conf.get.vis) IN
    IF visibility = None THEN <<>> ELSE
    LET method_name == MethodNameConf_complete(field.conf.get.name, field.ident)
        get_type == CASE field.conf.get.typ = "Auto" ->
                            GetType_from_field_type(prop_field_type)
                      [] field.conf.get.typ = "Ref" -> GetType("Ref", "")
                      [] field.conf.get.typ = "Copy_" -> GetType("Copy_", "")
                      [] OTHER -> GetType("Clone_", "")
        m(output, body) ==
            Method("get", Unwrap(visibility), method_name, "", "&self", output, body)
    IN  << CASE get_type.tag = "Ref" ->
                    m("&" \o field.ty.text, "&self." \o field.ident)
             [] get_type.tag = "Copy_" ->
                    m(field.ty.text, "self." \o field.ident)
             [] get_type.tag = "Clone_" ->
                    m(field.ty.text, "self." \o field.ident \o ".clone()")
             [] get_type.tag = "String_" ->
                    m("&str", "&self." \o field.ident \o "[..]")
             [] get_type.tag = "Slice" ->
                    m("&" \o get_type.inner, "&self." \o field.ident \o "[..]")
             [] OTHER ->
                    m("Option<&" \o get_type.inner \o ">",
                      "self." \o field.ident \o ".as_ref()") >>

\* derive_property_for_field, the setter (lib.rs 158-232)
derive_setter(field, prop_field_type) ==
    LET visibility == VisibilityConf_to_ts(field.conf.set.vis) IN
    IF visibility = None THEN <<>> ELSE
    LET method_name == MethodNameConf_complete(field.conf.set.name, field.ident)
        typ == field.conf.set.typ
        vector == prop_field_type.tag = "Vector"
        generics == IF vector THEN "T: Into<" \o prop_field_type.inner \o ">"
                    ELSE "T: Into<" \o field.ty.text \o ">"
        val == IF vector THEN "val: impl IntoIterator<Item = T>" ELSE "val: T"
        new == IF vector THEN "val.into_iter().map(Into::into).collect()"
               ELSE "val.into()"
        assign == "self." \o field.ident \o " = " \o new \o ";"
    IN  << CASE typ = "Ref" ->
                    Method("set", Unwrap(visibility), method_name, generics,
                           "&mut self, " \o val, "&mut Self", assign \o " self")
             [] typ = "Own" ->
                    Method("set", Unwrap(visibility), method_name, generics,
                           "mut self, " \o val, "Self", assign \o " self")
             [] typ = "None_" ->
                    Method("set", Unwrap(visibility), method_name, generics,
                           "&mut self, " \o val, "", assign)
             [] OTHER ->
                    Method("set", Unwrap(visibility), method_name, generics,
                           "&mut self, " \o val, field.ty.text,
                           "::core::mem::replace(&mut self." \o field.ident
                               \o ", " \o new \o ")") >>

\* derive_property_for_field, the mutable accessor (lib.rs 233-242)
derive_mut(field) ==
    LET visibility == VisibilityConf_to_ts(field.conf.mut_.vis) IN
    IF visibility = None THEN <<>> ELSE
    << Method("mut", Unwrap(visibility),
              MethodNameConf_complete(field.conf.mut_.name, field.ident), "",
              "&mut self", "&mut " \o field.ty.text, "&mut self." \o field.ident) >>

\* derive_property_for_field: the methods pushed, or the classifier's panic
derive_property_for_field(field) ==
    LET prop_field_type == FieldType_from_type(field.ty) IN
    IF prop_field_type.tag = "panic"
    THEN [panic |-> prop_field_type.panic, property |-> <<>>]
    ELSE [panic |-> "",
          property |-> derive_getter(field, prop_field_type)
                       \o derive_setter(field, prop_field_type)
                       \o derive_mut(field)]

-----------------------------------------------------------------------------

(* derive_property and the trait implementations.                          *)

PANIC_SAME_SERIAL_NUMBER == "there are at least two fields that have same serial number"

\* the filter of implement_traits (lib.rs 50-54)
RECURSIVE filter_ordered(_)
filter_ordered(fields) ==
    IF fields = <<>> THEN <<>>
    ELSE (IF IsSome(Head(fields).conf.ord.number) THEN <<Head(fields)>> ELSE <<>>)
         \o filter_ordered(Tail(fields))

\* f put into a sequence sorted by serial number, behind the fields whose
\* number is not larger: sort_by is stable
RECURSIVE sort_insert(_, _)
sort_insert(sorted, f) ==
    IF sorted = <<>> THEN <<f>>
    ELSE IF Unwrap(Head(sorted).conf.ord.number) <= Unwrap(f.conf.ord.number)
         THEN <<Head(sorted)>> \o sort_insert(Tail(sorted), f)
         ELSE <<f>> \o sorted

\* ordered.sort_by(|f1, f2| n1.cmp(&n2)) (lib.rs 58-62)
RECURSIVE sort_by_loop(_, _)
sort_by_loop(ordered, sorted) ==
    IF ordered = <<>> THEN sorted
    ELSE sort_by_loop(Tail(ordered), sort_insert(sorted, Head(ordered)))

\* sort_by leaving the fields in declaration order
sort_by_nothing(ordered) == ordered

sort_by(ordered) == sort_by_loop(ordered, <<>>)

\* ordered.windows(2).any(|f| n1 == n2) (lib.rs 63-67)
has_same_serial_number(ordered) ==
    \E i \in 1..(Len(ordered) - 1) :
        ordered[i].conf.ord.number = ordered[i + 1].conf.ord.number

\* SortTypeConf::is_ascending
is_ascending(sort_type) == sort_type = "Ascending"

\* implement_traits: None, a panic, or Some of the two impls: partial_eq_stmt
\* as the fields compared (joined by &&), partial_ord_stmt as the fields
\* compared in turn, each with its direction
implement_traits(fields) ==
    LET ordered == sort_by(filter_ordered(fields)) IN
    IF filter_ordered(fields) = <<>> THEN [panic |-> "", impl_traits |-> None]
    ELSE IF has_same_serial_number(ordered)
    THEN [panic |-> PANIC_SAME_SERIAL_NUMBER, impl_traits |-> None]
    ELSE [panic |-> "",
          impl_traits |->
              Some([partial_eq_stmt |-> [i \in 1..Len(ordered) |-> ordered[i].ident],
                    partial_ord_stmt |->
                        [i \in 1..Len(ordered) |->
                            [field_name |-> ordered[i].ident,
                             ascending |-> is_ascending(ordered[i].conf.ord.sort_type)]]])]

\* the fold of derive_property not looking at skip
RECURSIVE fold_methods_no_skip(_, _)
fold_methods_no_skip(fields, r) ==
    IF fields = <<>> THEN [panic |-> "", methods |-> r]
    ELSE Bind(derive_property_for_field(Head(fields)),
              LAMBDA d : IF d.panic # "" THEN [panic |-> d.panic, methods |-> r]
                         ELSE fold_methods_no_skip(Tail(fields), r \o d.property))

\* the fold of derive_property over the fields (lib.rs 28-33): the methods
\* of the fields that are not skipped, or the panic of one of them
RECURSIVE fold_methods(_, _)
fold_methods(fields, r) ==
    IF fields = <<>> THEN [panic |-> "", methods |-> r]
    ELSE IF Head(fields).conf.skip THEN fold_methods(Tail(fields), r)
    ELSE Bind(derive_property_for_field(Head(fields)),
              LAMBDA d : IF d.panic # "" THEN [panic |-> d.panic, methods |-> r]
                         ELSE fold_methods(Tail(fields), r \o d.property))

-----------------------------------------------------------------------------

(* One field through derive_property_for_field: the inputs.                *)

SimpleType(ident) == TypePath(<<PathSegment(ident, PathArgumentsNone)>>, ident)
GenericType(ident, arguments, text) == TypePath(<<PathSegment(ident, arguments)>>, text)

\* the declared types tried: the names the classifier knows, Vec and Option
\* with one type argument, with none, with an empty list, with a lifetime,
\* with two arguments and with parentheses, a path of several segments,
\* names it does not know, an array, a reference and a tuple
DeclaredTypes ==
    { SimpleType("u8"), SimpleType("f64"), SimpleType("i128"), SimpleType("bool"),
      SimpleType("char"), SimpleType("String"),
      GenericType("Vec", AngleBracketed(<< <<"Type", "u8">> >>), "Vec<u8>"),
      SimpleType("Vec"),
      GenericType("Vec", AngleBracketed(<<>>), "Vec<>"),
      GenericType("Vec", AngleBracketed(<< <<"Lifetime", "'a">> >>), "Vec<'a>"),
      GenericType("Vec", AngleBracketed(<< <<"Type", "u8">>, <<"Type", "A">> >>), "Vec<u8, A>"),
      GenericType("Vec", Parenthesized(<< <<"Type", "u8">> >>), "Vec(u8)"),
      GenericType("Option", AngleBracketed(<< <<"Type", "String">> >>), "Option<String>"),
      SimpleType("Option"),
      GenericType("Option", AngleBracketed(<<>>), "Option<>"),
      GenericType("Option", AngleBracketed(<< <<"Lifetime", "'a">> >>), "Option<'a>"),
      GenericType("Option", AngleBracketed(<< <<"Type", "u8">>, <<"Type", "u16">> >>),
                  "Option<u8, u16>"),
      GenericType("Option", Parenthesized(<< <<"Type", "u8">> >>), "Option(u8)"),
      TypePath(<< PathSegment("std", PathArgumentsNone),
                  PathSegment("vec", PathArgumentsNone),
                  PathSegment("Vec", AngleBracketed(<< <<"Type", "u8">> >>)) >>,
               "std::vec::Vec<u8>"),
      SimpleType("Foo"),
      GenericType("Foo", AngleBracketed(<< <<"Type", "u8">> >>), "Foo<u8>"),
      TypeArray("u8", "4", "[u8; 4]"),
      TypeOther("reference", "&'static str"),
      TypeOther("tuple", "(u8, bool)") }

\* the resolved configurations tried: each accessor on or off, every get
\* and set mode, the strip_option flag, names by format or given
SynthesisConfs ==
    { [FieldConfDefault EXCEPT
          !.get = [vis |-> gv, name |-> names[1], typ |-> gt],
          !.set = [vis |-> sv, name |-> names[2], typ |-> st, strip_option |-> so],
          !.mut_ = [vis |-> mv, name |-> names[3]]] :
        gv \in {"Disable", "Public"}, gt \in {"Auto", "Ref", "Copy_", "Clone_"},
        sv \in {"Disable", "Crate"}, st \in {"Ref", "Own", "None_", "Replace"},
        so \in BOOLEAN, mv \in {"Disable", "Private"},
        names \in { <<Format("", ""), Format("set_", ""), Format("mut_", "")>>,
                    <<Name("g"), Format("with_", "_x"), Format("", "_mut")>> } }

FieldDef(ident, ty, conf) == [ident |-> ident, ty |-> ty, conf |-> conf]

FieldInit ==
    /\ GlobalsInit
    /\ NoThreads
    /\ NoCall
    /\ pc = "field"
    /\ property \in {<<FieldDef("f", ty, conf)>> : ty \in DeclaredTypes, conf \in SynthesisConfs}
    /\ classified = NoFieldType
    /\ methods = <<>>
    /\ expanded = NoExpansion
    /\ operands = <<>>
    /\ verdict = NoVerdict

\* derive_property_for_field, line 114: the declared type is classified,
\* or the classifier panics and with it derive_property
ClassifyField ==
    /\ pc = "field"
    /\ \E r \in {FieldType_from_type(property[1].ty)} :
          /\ classified' = r
          /\ IF r.tag = "panic"
             THEN pc' = "panicked" /\ expanded' = [expanded EXCEPT !.panic = r.panic]
             ELSE pc' = "classified" /\ UNCHANGED expanded
    /\ UNCHANGED <<threads, globals, inherited, prop_type, meta, order, self, err, result,
                   property, methods, operands, verdict>>

\* derive_property_for_field, lines 115-243: the field's methods
SynthesizeField ==
    /\ pc = "classified"
    /\ methods' = derive_property_for_field(property[1]).property
    /\ pc' = "synthesized"
    /\ UNCHANGED <<threads, globals, inherited, prop_type, meta, order, self, err, result,
                   property, classified, expanded, operands, verdict>>

FieldNext == ClassifyField \/ SynthesizeField

SpecField == FieldInit /\ [][FieldNext]_vars

-----------------------------------------------------------------------------

(* One type through derive_property: the inputs.                           *)

MaxDeriveFields == 2

FieldIdents == <<"a", "b", "c", "d">>

\* the resolved fields tried: every accessor on, only the setter on, or
\* none; skipped or not; without a serial number or with one of two, in
\* either direction; of type u8 or, for fewer of these, of a type the
\* classifier panics on
ResolvedFields(ident) ==
    { FieldDef(ident, SimpleType("u8"),
               [FieldConfDefault EXCEPT
                   !.get.vis = v[1], !.set.vis = v[2], !.mut_.vis = v[3],
                   !.skip = s, !.ord = o]) :
        v \in { <<"Crate", "Crate", "Crate">>, <<"Disable", "Public", "Disable">>,
                <<"Disable", "Disable", "Disable">> },
        s \in BOOLEAN,
        o \in { [number |-> None, sort_type |-> "Ascending"],
                [number |-> Some(0), sort_type |-> "Ascending"],
                [number |-> Some(0), sort_type |-> "Descending"],
                [number |-> Some(1), sort_type |-> "Ascending"] } }
    \cup
    { FieldDef(ident, SimpleType("Vec"),
               [FieldConfDefault EXCEPT !.skip = s, !.ord.number = n]) :
        s \in BOOLEAN, n \in {None, Some(0)} }

\* the parsed types tried: up to MaxDeriveFields fields, named by position
PropertyDefs ==
    UNION { {p \in [1..k -> UNION {ResolvedFields(FieldIdents[i]) : i \in 1..k}] :
                \A i \in 1..k : p[i].ident = FieldIdents[i]} :
            k \in 1..MaxDeriveFields }

DeriveInit ==
    /\ GlobalsInit
    /\ NoThreads
    /\ NoCall
    /\ pc = "derive"
    /\ property \in PropertyDefs
    /\ classified = NoFieldType
    /\ methods = <<>>
    /\ expanded = NoExpansion
    /\ operands = <<>>
    /\ verdict = NoVerdict

\* derive_property, lines 28-38: the methods of the fields, or a panic of
\* derive_property_for_field
SynthesizeMethods ==
    /\ pc = "derive"
    /\ \E r \in {fold_methods(property, <<>>)} :
          /\ methods' = r.methods
          /\ IF r.panic # ""
             THEN pc' = "panicked" /\ expanded' = [expanded EXCEPT !.panic = r.panic]
             ELSE pc' = "methods" /\ UNCHANGED expanded
    /\ UNCHANGED <<threads, globals, inherited, prop_type, meta, order, self, err, result,
                   property, classified, operands, verdict>>

\* derive_property, lines 39-45: implement_traits, then the expansion is
\* returned, or implement_traits panics
ImplementTraits ==
    /\ pc = "methods"
    /\ \E r \in {implement_traits(property)} :
          IF r.panic # ""
          THEN pc' = "panicked" /\ expanded' = [expanded EXCEPT !.panic = r.panic]
          ELSE /\ pc' = "expanded"
               /\ expanded' = [panic |-> "", methods |-> methods,
                               impl_traits |-> r.impl_traits]
    /\ UNCHANGED <<threads, globals, inherited, prop_type, meta, order, self, err, result,
                   property, classified, methods, operands, verdict>>

DeriveNext == SynthesizeMethods \/ ImplementTraits

SpecDerive == DeriveInit /\ [][DeriveNext]_vars

-----------------------------------------------------------------------------

(* The generated impls at work.  A field value is a number, <<"num", n>>,  *)
(* or a NaN, <<"nan", 0>>, as of an f64 field; a value of the type is a    *)
(* function from the fields' idents to their values.                       *)

Num(n) == <<"num", n>>
NaN == <<"nan", 0>>

\* self.#field_name == other.#field_name, on f64
field_eq(x, y) == x[1] = "num" /\ y[1] = "num" /\ x[2] = y[2]

\* self.#field_name.partial_cmp(&other.#field_name), on f64
field_partial_cmp(x, y) ==
    IF x[1] = "nan" \/ y[1] = "nan" THEN None
    ELSE IF x[2] < y[2] THEN Some("Less")
    ELSE IF x[2] = y[2] THEN Some("Equal")
    ELSE Some("Greater")

\* the generated eq with || where && stands
generated_eq_or(partial_eq_stmt, this, other) ==
    \E i \in 1..Len(partial_eq_stmt) :
        field_eq(this[partial_eq_stmt[i]], other[partial_eq_stmt[i]])

\* the generated PartialEq::eq (lib.rs 92-96): the comparisons joined by &&
generated_eq(partial_eq_stmt, this, other) ==
    \A i \in 1..Len(partial_eq_stmt) :
        field_eq(this[partial_eq_stmt[i]], other[partial_eq_stmt[i]])

\* the generated PartialOrd::partial_cmp (lib.rs 98-103): each statement
\* pair computes result and returns it unless it is Some(Equal)
RECURSIVE generated_partial_cmp(_, _, _)
generated_partial_cmp(partial_ord_stmt, this, other) ==
    IF partial_ord_stmt = <<>> THEN Some("Equal")
    ELSE LET stmt == Head(partial_ord_stmt)
             outcome == IF stmt.ascending
                       THEN field_partial_cmp(this[stmt.field_name], other[stmt.field_name])
                       ELSE field_partial_cmp(other[stmt.field_name], this[stmt.field_name])
         IN  IF outcome # Some("Equal") THEN outcome
             ELSE generated_partial_cmp(Tail(partial_ord_stmt), this, other)

MaxOrderedFields == 2
MaxValue == 1

\* the fields tried: f64, every accessor on, without a serial number or
\* with one of three, in either direction
OrderedFields(ident) ==
    { FieldDef(ident, SimpleType("f64"), [FieldConfDefault EXCEPT !.ord = o]) :
        o \in {[number |-> None, sort_type |-> "Ascending"]}
              \cup {[number |-> Some(n), sort_type |-> d] :
                        n \in 0..2, d \in {"Ascending", "Descending"}} }

OrderedDefs ==
    UNION { {p \in [1..k -> UNION {OrderedFields(FieldIdents[i]) : i \in 1..k}] :
                \A i \in 1..k : p[i].ident = FieldIdents[i]} :
            k \in 1..MaxOrderedFields }

FieldValues == {Num(n) : n \in 0..MaxValue} \cup {NaN}

\* the values of a type with these fields
Instances(fields) == [{fields[i].ident : i \in 1..Len(fields)} -> FieldValues]

CompareInit ==
    /\ GlobalsInit
    /\ NoThreads
    /\ NoCall
    /\ pc = "derive"
    /\ property \in OrderedDefs
    /\ classified = NoFieldType
    /\ methods = <<>>
    /\ expanded = NoExpansion
    /\ operands = <<>>
    /\ verdict = NoVerdict

\* two values of the type are compared by the generated impls
Compare ==
    /\ pc = "expanded"
    /\ IsSome(expanded.impl_traits)
    /\ \E this \in Instances(property), other \in Instances(property) :
          /\ operands' = <<this, other>>
          /\ verdict' =
                [eq |-> generated_eq(Unwrap(expanded.impl_traits).partial_eq_stmt,
                                     this, other),
                 partial_cmp |->
                     generated_partial_cmp(Unwrap(expanded.impl_traits).partial_ord_stmt,
                                           this, other)]
    /\ pc' = "compared"
    /\ UNCHANGED <<threads, globals, inherited, prop_type, meta, order, self, err, result,
                   property, classified, methods, expanded>>

CompareNext == SynthesizeMethods \/ ImplementTraits \/ Compare

SpecCompare == CompareInit /\ [][CompareNext]_vars

-----------------------------------------------------------------------------

(* Macro invocations running concurrently.  The statics are shared; each   *)
(* thread runs one call, set_default_conf on a parsed CrateConfDef or the  *)
(* get_default_conf of a type's resolution, one statement at a step.       *)

MaxThreads == 2

Threads == 1..MaxThreads

\* the configurations CrateConfDef::parse returns for the annotations tried
ThreadConfs ==
    UNION { {Unwrap(CrateConfDef_parse(nested, o).val) :
                o \in {x \in OrdersOfNested(nested) :
                          CrateConfDef_parse(nested, x).err = "none"}} :
            nested \in CrateArgs }

\* a call about to start: let Self { conf } = self, or a resolution
SetCall(conf) ==
    [op |-> "set_default_conf", pc |-> "start", conf |-> Some(conf), call_count |-> 0,
     err |-> "", wrote |-> FALSE, base |-> None, built_in |-> FALSE]
GetCall ==
    [op |-> "get_default_conf", pc |-> "start", conf |-> None, call_count |-> 0,
     err |-> "", wrote |-> FALSE, base |-> None, built_in |-> FALSE]

ThreadCalls == {SetCall(conf) : conf \in ThreadConfs} \cup {GetCall}

ConcurrentInit ==
    /\ GlobalsInit
    /\ CallIdle
    /\ DeriveIdle
    /\ threads \in [Threads -> ThreadCalls]

\* the thread inside the closure of INIT_DEFAULT.call_once, if any
Writers == {w \in DOMAIN threads : threads[w].pc = "writing"}

\* what a read of static mut CRATE_CONF can observe: its value, or, racing
\* with the assignment in the closure, the value being assigned
CRATE_CONF_read == {CRATE_CONF} \cup {threads[w].conf : w \in Writers}

\* let call_count = CALL_COUNT.load(Ordering::SeqCst)
SetLoad(t) ==
    /\ threads[t].op = "set_default_conf"
    /\ threads[t].pc = "start"
    /\ threads' = [threads EXCEPT ![t].call_count = CALL_COUNT, ![t].pc = "loaded"]
    /\ UNCHANGED <<globals, call, derive>>

\* if CRATE_CONF.is_some() { panic } else if call_count > 0 { panic }
SetCheck(t) ==
    /\ threads[t].op = "set_default_conf"
    /\ threads[t].pc = "loaded"
    /\ \E crate_conf \in CRATE_CONF_read :
          threads' =
              IF IsSome(crate_conf)
              THEN [threads EXCEPT ![t].err = PANIC_SET_TWICE, ![t].pc = "panicked"]
              ELSE IF threads[t].call_count > 0
              THEN [threads EXCEPT ![t].err = PANIC_SET_LATE, ![t].pc = "panicked"]
              ELSE [threads EXCEPT ![t].pc = "checked"]
    /\ UNCHANGED <<globals, call, derive>>

\* INIT_DEFAULT.call_once: the first caller enters the closure, a caller
\* that finds the Once completed returns at once, and a caller that finds
\* it running waits
SetCallOnce(t) ==
    /\ threads[t].op = "set_default_conf"
    /\ threads[t].pc = "checked"
    /\ Writers = {}
    /\ threads' = [threads EXCEPT ![t].pc = IF INIT_DEFAULT THEN "returned" ELSE "writing"]
    /\ UNCHANGED <<globals, call, derive>>

\* CRATE_CONF = Some(conf), and the Once is completed
SetWrite(t) ==
    /\ threads[t].op = "set_default_conf"
    /\ threads[t].pc = "writing"
    /\ CRATE_CONF' = threads[t].conf
    /\ INIT_DEFAULT' = TRUE
    /\ threads' = [threads EXCEPT ![t].wrote = TRUE, ![t].pc = "returned"]
    /\ UNCHANGED <<CALL_COUNT, last, bases, call, derive>>

\* let _ = CALL_COUNT.fetch_add(1, Ordering::SeqCst)
GetFetchAdd(t) ==
    /\ threads[t].op = "get_default_conf"
    /\ threads[t].pc = "start"
    /\ CALL_COUNT' = CALL_COUNT_fetch_add(CALL_COUNT)
    /\ threads' = [threads EXCEPT ![t].pc = "counted"]
    /\ UNCHANGED <<CRATE_CONF, INIT_DEFAULT, last, bases, call, derive>>

\* CRATE_CONF.as_ref().map(ToOwned::to_owned).unwrap_or_else(Default::default)
GetRead(t) ==
    /\ threads[t].op = "get_default_conf"
    /\ threads[t].pc = "counted"
    /\ \E crate_conf \in CRATE_CONF_read :
          /\ threads' = [threads EXCEPT ![t].base = Some(get_default_conf(crate_conf)),
                                        ![t].built_in = ~IsSome(crate_conf),
                                        ![t].pc = "returned"]
          /\ bases' = bases \cup {get_default_conf(crate_conf)}
    /\ UNCHANGED <<CRATE_CONF, CALL_COUNT, INIT_DEFAULT, last, call, derive>>

ConcurrentNext ==
    \E t \in Threads :
        \/ SetLoad(t)
        \/ SetCheck(t)
        \/ SetCallOnce(t)
        \/ SetWrite(t)
        \/ GetFetchAdd(t)
        \/ GetRead(t)

SpecConcurrent == ConcurrentInit /\ [][ConcurrentNext]_vars

-----------------------------------------------------------------------------

(* Claims about the crate default and the resolution of a type (checked    *)
(* under Spec, whose steps are the serialized macro invocations).          *)

LifecycleErrors == {PANIC_SET_TWICE, PANIC_SET_LATE}

\* C1: once a set_default_conf has succeeded (only then is CRATE_CONF
\* filled, with what that call carried), every later set_default_conf
\* fails with the lifecycle error, whatever it carries, and CRATE_CONF
\* stays what the first call wrote.
C1_SecondSetDefaultFails ==
    [][ /\ (last'.op = "set_default_conf" /\ last'.err = "none") =>
              (CRATE_CONF = None /\ CRATE_CONF' = Some(last'.input))
        /\ (last'.op = "set_default_conf" /\ IsSome(CRATE_CONF)) =>
              last'.err = PANIC_SET_TWICE
        /\ IsSome(CRATE_CONF) => CRATE_CONF' = CRATE_CONF ]_vars

\* a second call, carrying what the first one stored, has failed
C1_Witness ==
    /\ last.op = "set_default_conf"
    /\ last.err = PANIC_SET_TWICE
    /\ CRATE_CONF = Some(last.input)
    /\ CALL_COUNT = 0

\* C2: a set_default_conf called when CALL_COUNT > 0 fails with the
\* lifecycle error and leaves CRATE_CONF as it was, unset if it was; so the
\* configurations get_default_conf has handed out in one run are all the
\* same one: the crate default if there is one, else the built-in default.
C2_NoSetDefaultAfterResolution ==
    /\ [][ (last'.op = "set_default_conf" /\ CALL_COUNT > 0) =>
              (last'.err \in LifecycleErrors /\ CRATE_CONF' = CRATE_CONF) ]_vars
    /\ [](bases \subseteq {IF IsSome(CRATE_CONF) THEN Unwrap(CRATE_CONF)
                           ELSE FieldConfDefault})

\* set_default_conf has failed after a resolution that used the built-in
\* default, and the slot is unset
C2_Witness ==
    /\ last.op = "set_default_conf"
    /\ last.err = PANIC_SET_LATE
    /\ last.input # FieldConfDefault
    /\ CRATE_CONF = None
    /\ CALL_COUNT > 0
    /\ bases = {FieldConfDefault}

\* the groups of the attributes of a type or field, in the order presented
RECURSIVE GroupsOfAttrs(_)
GroupsOfAttrs(attrs) ==
    IF attrs = <<>> THEN <<>>
    ELSE (IF Head(attrs).is_property /\ Head(attrs).form = "list"
          THEN Head(attrs).nested ELSE <<>>) \o GroupsOfAttrs(Tail(attrs))

\* conf with the groups applied one after the other
RECURSIVE AppliedInOrder(_, _, _)
AppliedInOrder(conf, groups, level) ==
    IF groups = <<>> THEN conf
    ELSE AppliedInOrder(
            apply_attrs(conf, Head(groups), level,
                        CHOOSE o \in Orders(PathParamsOf(Head(groups))) : TRUE).conf,
            Tail(groups), level)

\* C3: the container configuration is the crate default (the built-in
\* default when none was set) with the container's groups applied in order;
\* each field's configuration is that container configuration with the
\* field's own groups applied in order; no groups, no change; and a field's
\* configuration does not depend on the other fields.
C3_ThreeLevelInheritance ==
    (last.op = "ContainerDef::parse" /\ IsSome(last.conf)) =>
        LET base == IF IsSome(CRATE_CONF) THEN Unwrap(CRATE_CONF)
                    ELSE FieldConfDefault
            conf == Unwrap(last.conf)
            fields == last.input.fields
        IN  /\ last.base = Some(base)
            /\ conf = AppliedInOrder(base, GroupsOfAttrs(last.input.attrs), "Container")
            /\ last.input.attrs = <<>> => conf = base
            /\ last.err = "none" =>
                  /\ Len(last.fields) = Len(fields) /\ fields # <<>>
                  /\ \A i \in 1..Len(fields) :
                        /\ last.fields[i] =
                              AppliedInOrder(conf, GroupsOfAttrs(fields[i].attrs), "Field")
                        /\ fields[i].attrs = <<>> => last.fields[i] = conf
                  /\ \A i, j \in 1..Len(fields) :
                        fields[i].attrs = fields[j].attrs => last.fields[i] = last.fields[j]

\* a type resolved under a crate default that is not the built-in one, with
\* groups of its own, an annotated field and, after it, a bare field
C3_Witness ==
    /\ last.op = "ContainerDef::parse" /\ last.err = "none"
    /\ IsSome(CRATE_CONF) /\ Unwrap(CRATE_CONF).get.vis = "Public"
    /\ Unwrap(last.conf).get.vis = "Disable"
    /\ Unwrap(last.conf).set.strip_option
    /\ Len(last.fields) = 2
    /\ last.input.fields[1].attrs # <<>> /\ last.input.fields[2].attrs = <<>>
    /\ last.fields[1].get = [vis |-> "Private", name |-> Name("g"), typ |-> "Copy_"]
    /\ last.fields[2] = Unwrap(last.conf)

\* C7 as claimed: the bare skip marker at crate or container level is a
\* fatal error, and no crate-level or container-level configuration has
\* skip = true.
C7_SkipOnlyOnFields ==
    /\ (last.op = "CrateConfDef::parse" /\ SeqContains(last.input, MetaPath(SKIP)))
          => last.err # "none"
    /\ (last.op = "ContainerDef::parse" /\ last.input.data = "struct_named"
            /\ SeqContains(GroupsOfAttrs(last.input.attrs), MetaPath(SKIP)))
          => last.err # "none"
    /\ IsSome(CRATE_CONF) => ~Unwrap(CRATE_CONF).skip
    /\ (last.op = "ContainerDef::parse" /\ IsSome(last.conf)) => ~Unwrap(last.conf).skip

\* C19: CALL_COUNT goes up by one in every ContainerDef::parse of a struct
\* with named fields, also when that parse then fails (a bad annotation, no
\* field), and in no other step: not in the parse of a declaration rejected
\* as no struct or as having no named fields, not in CrateConfDef::parse.
\* So set_default_conf succeeds exactly when the slot is empty and no
\* struct with named fields has been parsed, however many other
\* declarations and crate-default annotations have been.
C19_CounterCountsNamedStructs ==
    [][ /\ last'.op = "ContainerDef::parse" =>
              CALL_COUNT' = CALL_COUNT +
                  (IF last'.input.data = "struct_named" THEN 1 ELSE 0)
        /\ last'.op # "ContainerDef::parse" => CALL_COUNT' = CALL_COUNT
        /\ (last'.op = "ContainerDef::parse" /\ last'.input.data # "struct_named")
              => last'.err \in {"only support named fields", "only support structs"}
        /\ last'.op = "set_default_conf" =>
              (last'.err = "none" <=> (CRATE_CONF = None /\ CALL_COUNT = 0)) ]_vars

\* the first parse of a struct with named fields has failed, its one field
\* carrying a bad annotation, and has left CALL_COUNT at 1
C19_Witness ==
    /\ last.op = "ContainerDef::parse"
    /\ last.input.data = "struct_named"
    /\ Len(last.input.fields) = 1
    /\ last.err = "do not set prefix or suffix if name was set"
    /\ CALL_COUNT = 1
    /\ CRATE_CONF = None

-----------------------------------------------------------------------------
(* Claims about one group (checked under SpecApply).                       *)

Applied == pc \in {"applied", "returned"}
Accepted == Applied /\ err = "none"
Rejected == Applied /\ err # "none"
IsGroup(g) == meta.form = "list" /\ meta.ident = g

TokenIndexes == 1..Len(meta.nested)
WordAt(i) == meta.nested[i][1] = "word"
PairAt(i) == meta.nested[i][1] = "nv"
WordsWritten == {meta.nested[i][2] : i \in {j \in TokenIndexes : WordAt(j)}}
KeysWritten == {meta.nested[i][2] : i \in {j \in TokenIndexes : PairAt(j)}}
OnlyWordsAndPairs == \A i \in TokenIndexes : WordAt(i) \/ PairAt(i)

\* the word groups of the annotation surface, per attribute group
WordGroupsOf(g) ==
    CASE g = "set" -> {{"disable", "public", "crate", "private"}, {"strip_option"}}
      [] g = "ord" -> {{"asc", "desc"}}
      [] OTHER -> {{"disable", "public", "crate", "private"}}

VisibilityOfWord(w) ==
    CASE w = "disable" -> "Disable"
      [] w = "public" -> "Public"
      [] w = "crate" -> "Crate"
      [] OTHER -> "Private"

\* C4: an accepted group changes only its own sub-configuration: get leaves
\* set, mut, ord and skip as inherited, and so do set, mut and ord for the
\* other three and skip; bare skip sets skip and leaves get, set, mut, ord.
C4_GroupTouchesOnlyItsOwn ==
    Accepted =>
        /\ IsGroup("get") =>
              /\ self.set = inherited.set /\ self.mut_ = inherited.mut_
              /\ self.ord = inherited.ord /\ self.skip = inherited.skip
        /\ IsGroup("set") =>
              /\ self.get = inherited.get /\ self.mut_ = inherited.mut_
              /\ self.ord = inherited.ord /\ self.skip = inherited.skip
        /\ IsGroup("mut") =>
              /\ self.get = inherited.get /\ self.set = inherited.set
              /\ self.ord = inherited.ord /\ self.skip = inherited.skip
        /\ IsGroup("ord") =>
              /\ self.get = inherited.get /\ self.set = inherited.set
              /\ self.mut_ = inherited.mut_ /\ self.skip = inherited.skip
        /\ (meta.form = "path" /\ meta.ident = "skip") =>
              /\ self.skip = TRUE
              /\ self.get = inherited.get /\ self.set = inherited.set
              /\ self.mut_ = inherited.mut_ /\ self.ord = inherited.ord

\* an accepted set group that changed all it can change of set
C4_Witness ==
    /\ Accepted /\ IsGroup("set")
    /\ self.set.vis # inherited.set.vis
    /\ self.set.name # inherited.set.name
    /\ self.set.typ # inherited.set.typ

\* C5 as claimed: in an accepted get, set or mut group, a visibility, a
\* return mode and the strip_option flag that the group does not mention
\* keep their inherited values.
C5_UnmentionedKeepInherited ==
    Accepted =>
        /\ (IsGroup("get") /\ WordsWritten \cap {"disable", "public", "crate", "private"} = {})
              => self.get.vis = inherited.get.vis
        /\ (IsGroup("set") /\ WordsWritten \cap {"disable", "public", "crate", "private"} = {})
              => self.set.vis = inherited.set.vis
        /\ (IsGroup("mut") /\ WordsWritten \cap {"disable", "public", "crate", "private"} = {})
              => self.mut_.vis = inherited.mut_.vis
        /\ (IsGroup("get") /\ "type" \notin KeysWritten)
              => self.get.typ = inherited.get.typ
        /\ (IsGroup("set") /\ "type" \notin KeysWritten)
              => self.set.typ = inherited.set.typ
        /\ (IsGroup("set") /\ "strip_option" \notin WordsWritten)
              => self.set.strip_option = inherited.set.strip_option

\* C6 as claimed: when applying a group returns an error, the configuration
\* being resolved holds the values it had before the group was applied.
C6_FailedGroupLeavesConf == Rejected => self = inherited

\* C6 as amended: when applying a group returns an error, resolution returns
\* that error and no configuration; the discarded working copy differs from
\* the inherited configuration at most in the visibility of the failed
\* group's own sub-configuration.
C6_FailedGroupNotRetained ==
    /\ Rejected =>
          \/ self = inherited
          \/ IsGroup("get") /\ self = [inherited EXCEPT !.get.vis = self.get.vis]
          \/ IsGroup("set") /\ self = [inherited EXCEPT !.set.vis = self.set.vis]
          \/ IsGroup("mut") /\ self = [inherited EXCEPT !.mut_.vis = self.mut_.vis]
    /\ (pc = "returned" /\ err # "none") => result = [err |-> err, val |-> None]
    /\ (pc = "returned" /\ err = "none") => result = [err |-> "none", val |-> Some(self)]

\* get(private, name = "x", prefix = "p") has failed and parse_attrs has
\* returned, the working copy holding the group's visibility
C6_Witness ==
    /\ pc = "returned"
    /\ meta = MetaList("get", <<Word("private"), NV("name", "x"), NV("prefix", "p")>>)
    /\ err = "do not set prefix or suffix if name was set"
    /\ result = [err |-> err, val |-> None]
    /\ self.get.vis = "Private" /\ inherited.get.vis = "Crate"

\* C8: a get, set or mut group with `name` and `prefix` or `suffix` is
\* rejected, with the mutual-exclusion error when it holds nothing but these
\* keys once each; a group of only `name`, or only `prefix` and/or `suffix`,
\* is accepted.
C8_NameExcludesAffix ==
    (Applied /\ (IsGroup("get") \/ IsGroup("set") \/ IsGroup("mut"))) =>
        LET both == "name" \in KeysWritten /\ KeysWritten \cap {"prefix", "suffix"} # {}
            onlyNames ==
                /\ meta.nested # <<>>
                /\ \A i \in TokenIndexes :
                      PairAt(i) /\ meta.nested[i][2] \in {"name", "prefix", "suffix"}
                /\ \A i, j \in TokenIndexes :
                      i # j => meta.nested[i][2] # meta.nested[j][2]
        IN  /\ both => err # "none"
            /\ (both /\ onlyNames) => err = "do not set prefix or suffix if name was set"
            /\ (~both /\ onlyNames) => err = "none"
            /\ err = "do not set prefix or suffix if name was set" => both

\* mut(suffix = "s", name = "x") has been rejected for mixing them
C8_Witness ==
    /\ Applied /\ IsGroup("mut")
    /\ meta.nested = <<NV("suffix", "s"), NV("name", "x")>>
    /\ err = "do not set prefix or suffix if name was set"


\* the word groups the code hands to check_path_params, per attribute group
OptionsOf(g) ==
    IF g = "set" THEN <<VISIBILITY_OPTIONS, STRIP_OPTION>> ELSE <<VISIBILITY_OPTIONS>>

\* two word tokens of the group, written at different places, that are the
\* same word or belong to one word group
TwoOfOneWordGroup ==
    \E i, j \in TokenIndexes :
        /\ i # j /\ WordAt(i) /\ WordAt(j)
        /\ \/ meta.nested[i][2] = meta.nested[j][2]
           \/ \E G \in WordGroupsOf(meta.ident) :
                 meta.nested[i][2] \in G /\ meta.nested[j][2] \in G

\* only words, all different, each of a word group of the attribute group,
\* at most one per word group
WellFormedWords ==
    /\ \A i \in TokenIndexes : WordAt(i)
    /\ ~TwoOfOneWordGroup
    /\ \A w \in WordsWritten : \E G \in WordGroupsOf(meta.ident) : w \in G

\* C9: a group with two words of one word group (two visibility words, a
\* word twice, asc and desc) is rejected, however the words are written and
\* in whatever order the collected set is walked; a group of at most one
\* word per word group passes check_path_params with the same matched words
\* in every iteration order, and the words it gives are the ones applied.
C9_OneWordPerWordGroup ==
    (Applied /\ meta.form = "list" /\ meta.ident \in Groups) =>
        /\ TwoOfOneWordGroup => err # "none"
        /\ (WellFormedWords /\ meta.ident # "ord") =>
              /\ \A o \in Orders(WordsWritten) :
                    LET r == check_path_params(o, OptionsOf(meta.ident)) IN
                    /\ r.err = "none"
                    /\ \A i \in 1..Len(OptionsOf(meta.ident)) :
                          LET hits == {w \in WordsWritten :
                                          SeqContains(OptionsOf(meta.ident)[i], w)}
                          IN  IF hits = {} THEN r.val[i] = None
                              ELSE hits = {Unwrap(r.val[i])}
              /\ meta.nested # <<>> =>
                    /\ err = "none"
                    /\ \A w \in WordsWritten \ {"strip_option"} :
                          /\ meta.ident = "get" => self.get.vis = VisibilityOfWord(w)
                          /\ meta.ident = "set" => self.set.vis = VisibilityOfWord(w)
                          /\ meta.ident = "mut" => self.mut_.vis = VisibilityOfWord(w)
        /\ (WellFormedWords /\ meta.ident = "ord" /\ meta.nested # <<>>
                /\ prop_type # "Field") =>
              /\ err = "none"
              /\ self.ord.sort_type =
                    (IF "desc" \in WordsWritten THEN "Descending" ELSE "Ascending")

\* set(public, strip_option, private) has been rejected for its two
\* visibility words, the set walked with strip_option between them
C9_Witness ==
    /\ Applied /\ IsGroup("set")
    /\ meta.nested = <<Word("public"), Word("strip_option"), Word("private")>>
    /\ order = <<"private", "strip_option", "public">>
    /\ err = "this kind of attribute has been set twice"

\* the pairs the annotation surface gives each attribute group
PairAllowed(g, k, v) ==
    CASE g = "get" -> \/ k \in {"name", "prefix", "suffix"}
                      \/ k = "type" /\ v \in {"auto", "ref", "copy", "clone"}
      [] g = "set" -> \/ k \in {"name", "prefix", "suffix"}
                      \/ k = "type" /\ v \in {"ref", "own", "none", "replace"}
      [] g = "mut" -> k \in {"name", "prefix", "suffix"}
      [] OTHER -> FALSE

\* C10 as claimed: in get, set, mut and ord, a group holding a pair whose
\* key the group does not recognise, or whose value is not one of the
\* key's allowed values, fails.
C10_OnlyRecognisedPairs ==
    (Applied /\ meta.form = "list" /\ meta.ident \in Groups) =>
        ((\E i \in TokenIndexes :
              PairAt(i) /\ ~PairAllowed(meta.ident, meta.nested[i][2], meta.nested[i][3]))
            => err # "none")

\* the tokens of the group that are serial-number words (they start with _)
OrdinalIndexes ==
    {i \in TokenIndexes : WordAt(i) /\ Chars(meta.nested[i][2])[1] = "_"}

\* the number a well-formed serial-number word stands for
OrdinalOf(w) ==
    CASE w = "_0" -> Some(0)
      [] w = "_1" -> Some(1)
      [] w = "_01" -> Some(1)
      [] OTHER -> None

\* C11: an ord group is accepted at field scope only if it carries exactly
\* one serial-number token, a well-formed one, whose number the field then
\* holds (none: "no serial number was set"; two: a "set twice" error), and
\* at container or crate scope only if it carries none.  So a configuration
\* returned at container or crate scope holds no ordinal when the inherited
\* one held none (the built-in default holds none), and one returned at
\* field scope holds an ordinal only if the group supplied it.
C11_OrdinalValidByScope ==
    /\ (Applied /\ IsGroup("ord")) =>
          /\ (Accepted /\ prop_type = "Field") =>
                /\ Cardinality(OrdinalIndexes) = 1
                /\ \A i \in OrdinalIndexes :
                      /\ IsSome(OrdinalOf(meta.nested[i][2]))
                      /\ self.ord.number = OrdinalOf(meta.nested[i][2])
          /\ (Accepted /\ prop_type # "Field") =>
                (OrdinalIndexes = {} /\ self.ord.number = None)
          /\ (prop_type = "Field" /\ Len(meta.nested) = 1
                /\ WordsWritten \subseteq {"asc", "desc"} /\ WordsWritten # {})
                => err = "no serial number was set"
          /\ (prop_type = "Field" /\ Len(meta.nested) = 2
                /\ Cardinality(OrdinalIndexes) = 2
                /\ \A i \in OrdinalIndexes : IsSome(OrdinalOf(meta.nested[i][2])))
                => err \in {"the serial number has been set twice",
                            "this attribute has been set twice"}
          /\ (prop_type # "Field" /\ OrdinalIndexes # {}) => Rejected
    /\ (pc = "returned" /\ result.err = "none") =>
          /\ prop_type # "Field" => Unwrap(result.val).ord.number = None
          /\ IsSome(Unwrap(result.val).ord.number) =>
                (prop_type = "Field" /\ IsGroup("ord") /\ OrdinalIndexes # {})

\* a field's ord(desc, _01) has been accepted and returned with ordinal 1
C11_Witness ==
    /\ pc = "returned" /\ prop_type = "Field"
    /\ meta = MetaList("ord", <<Word("desc"), Word("_01")>>)
    /\ result.err = "none"
    /\ Unwrap(result.val).ord = [number |-> Some(1), sort_type |-> "Descending"]

\* the method-name spec of the group's own sub-configuration
NameSpecOf(conf) ==
    CASE IsGroup("get") -> conf.get.name
      [] IsGroup("set") -> conf.set.name
      [] OTHER -> conf.mut_.name

NameKeysWritten == KeysWritten \cap {"name", "prefix", "suffix"}

\* the value written for key k
ValueWritten(k) ==
    meta.nested[CHOOSE i \in TokenIndexes : PairAt(i) /\ meta.nested[i][2] = k][3]

\* C20: an accepted get, set or mut group that writes name, prefix or
\* suffix replaces the inherited method-name spec as a whole (only prefix:
\* Format(prefix, ""); only suffix: Format("", suffix); both: Format(prefix,
\* suffix); name: Name(name)), and one that writes none of them leaves it
\* as inherited.  The exclusion looks at one group only: a lone prefix is
\* accepted whatever was inherited, an explicit name too.
C20_NameSpecReplacedWhole ==
    (Applied /\ (IsGroup("get") \/ IsGroup("set") \/ IsGroup("mut"))) =>
        /\ Accepted =>
              /\ NameKeysWritten = {} => NameSpecOf(self) = NameSpecOf(inherited)
              /\ NameKeysWritten = {"prefix"} =>
                    NameSpecOf(self) = Format(ValueWritten("prefix"), "")
              /\ NameKeysWritten = {"suffix"} =>
                    NameSpecOf(self) = Format("", ValueWritten("suffix"))
              /\ NameKeysWritten = {"prefix", "suffix"} =>
                    NameSpecOf(self) = Format(ValueWritten("prefix"), ValueWritten("suffix"))
              /\ NameKeysWritten = {"name"} =>
                    NameSpecOf(self) = Name(ValueWritten("name"))
              /\ "name" \in NameKeysWritten => NameKeysWritten = {"name"}
        /\ (Len(meta.nested) = 1 /\ NameKeysWritten # {}) => Accepted

\* a field's get(prefix = "p") has been accepted over an inherited explicit
\* name and has left the format (p, "")
C20_Witness ==
    /\ Accepted /\ prop_type = "Field"
    /\ meta = MetaList("get", <<NV("prefix", "p")>>)
    /\ inherited.get.name = Name("g")
    /\ self.get.name = Format("p", "")

-----------------------------------------------------------------------------
(* Claims about one field's classification and methods (checked under      *)
(* SpecField).                                                             *)

FieldClassified == pc \in {"classified", "synthesized", "panicked"}
FieldSynthesized == pc = "synthesized"
TheField == property[1]

\* the declared type is a single-segment path named n
IsNamed(ty, n) == ty.kind = "path" /\ Len(ty.segments) = 1 /\ ty.segments[1].ident = n

\* ... carrying exactly one angle-bracketed argument, a type
HasOneTypeArgument(ty) ==
    /\ ty.segments[1].arguments.form = "AngleBracketed"
    /\ Len(ty.segments[1].arguments.args) = 1
    /\ ty.segments[1].arguments.args[1][1] = "Type"

\* the shape the classification contract gives a declared type
ShapeOf(ty) ==
    CASE \E n \in NumberNames : IsNamed(ty, n) -> "Number"
      [] IsNamed(ty, "bool") -> "Boolean"
      [] IsNamed(ty, "char") -> "Character"
      [] IsNamed(ty, "String") -> "String_"
      [] IsNamed(ty, "Vec") /\ HasOneTypeArgument(ty) -> "Vector"
      [] IsNamed(ty, "Option") /\ HasOneTypeArgument(ty) -> "Option_"
      [] ty.kind = "array" -> "Array"
      [] OTHER -> "Unhandled"

\* C18 as claimed: the classifier returns a shape for every declared type,
\* never aborting, and every type that is not a recognized form (a Vec or
\* Option without exactly one angle-bracketed type argument among them) is
\* Unhandled.
C18_ClassifierTotal ==
    FieldClassified =>
        /\ classified.tag # "panic"
        /\ pc # "panicked"
        /\ classified.tag = ShapeOf(TheField.ty)

\* the getter of the field, when one was synthesized: it comes first
HasGetter == FieldSynthesized /\ TheField.conf.get.vis # "Disable"
Getter == methods[1]

\* what a getter returns and how, as <<output, body>>
ByCopy == <<TheField.ty.text, "self.f">>
ByReference == <<"&" \o TheField.ty.text, "&self.f">>
ByClone == <<TheField.ty.text, "self.f.clone()">>
TextView == <<"&str", "&self.f[..]">>
SliceOf(elem) == <<"&[" \o elem \o "]", "&self.f[..]">>
OptionalReferenceTo(inner) == <<"Option<&" \o inner \o ">", "self.f.as_ref()">>

\* C16: a synthesized getter takes &self and, in mode Auto, returns by the
\* classified shape (Number, Boolean, Character: a copy; String_: a text
\* view; Array and Vector: a slice of the elements; Option_: an optional
\* reference to the inner value; Unhandled: a reference); in mode Ref, Copy_
\* or Clone_ it returns a reference to, a copy of or a clone of the field
\* as declared, whatever the shape.
C16_GetterReturnConvention ==
    HasGetter =>
        /\ Getter.kind = "get" /\ Getter.inputs = "&self"
        /\ <<Getter.output, Getter.body>> =
              CASE TheField.conf.get.typ = "Ref" -> ByReference
                [] TheField.conf.get.typ = "Copy_" -> ByCopy
                [] TheField.conf.get.typ = "Clone_" -> ByClone
                [] OTHER ->
                      CASE classified.tag \in {"Number", "Boolean", "Character"} -> ByCopy
                        [] classified.tag = "String_" -> TextView
                        [] classified.tag \in {"Array", "Vector"} -> SliceOf(classified.inner)
                        [] classified.tag = "Option_" -> OptionalReferenceTo(classified.inner)
                        [] OTHER -> ByReference

\* the getter of a Vec<u8> field in mode Auto returns the slice &[u8]
C16_Witness ==
    /\ HasGetter
    /\ TheField.ty.text = "Vec<u8>" /\ TheField.conf.get.typ = "Auto"
    /\ Getter.output = "&[u8]" /\ Getter.body = "&self.f[..]"

\* the setter of the field, when one was synthesized: it follows the getter
HasSetter == FieldSynthesized /\ TheField.conf.set.vis # "Disable"
Setter == methods[IF TheField.conf.get.vis # "Disable" THEN 2 ELSE 1]

\* C17 as claimed: a setter on a Vector or Array field takes a sequence of
\* values convertible to the element type and stores them collected; one on
\* an Option_ field with strip_option takes a value convertible to the
\* inner type and stores it wrapped; any other takes one value convertible
\* to the declared type.  The mode decides only the receiver and what is
\* returned: Ref &mut Self, Own Self, None_ nothing, Replace the old value.
C17_SetterParameterShape ==
    HasSetter =>
        LET typ == TheField.conf.set.typ
            sequence == classified.tag \in {"Vector", "Array"}
            stripped == classified.tag = "Option_" /\ TheField.conf.set.strip_option
            bound == CASE sequence -> classified.inner
                       [] stripped -> classified.inner
                       [] OTHER -> TheField.ty.text
            val == IF sequence THEN "val: impl IntoIterator<Item = T>" ELSE "val: T"
            new == CASE sequence -> "val.into_iter().map(Into::into).collect()"
                     [] stripped -> "Some(val.into())"
                     [] OTHER -> "val.into()"
            receiver == IF typ = "Own" THEN "mut self" ELSE "&mut self"
        IN  /\ Setter.kind = "set"
            /\ Setter.generics = "T: Into<" \o bound \o ">"
            /\ Setter.inputs = receiver \o ", " \o val
            /\ Setter.output = CASE typ = "Ref" -> "&mut Self"
                                 [] typ = "Own" -> "Self"
                                 [] typ = "None_" -> ""
                                 [] OTHER -> TheField.ty.text
            /\ Setter.body =
                  CASE typ \in {"Ref", "Own"} -> "self.f = " \o new \o "; self"
                    [] typ = "None_" -> "self.f = " \o new \o ";"
                    [] OTHER -> "::core::mem::replace(&mut self.f, " \o new \o ")"

-----------------------------------------------------------------------------
(* Claims about derive_property (checked under SpecDerive).                *)

FieldIndexes == 1..Len(property)

\* two different fields carry the same serial number
DuplicateOrdinal ==
    \E i, j \in FieldIndexes :
        /\ i # j
        /\ IsSome(property[i].conf.ord.number)
        /\ property[i].conf.ord.number = property[j].conf.ord.number

\* C12 as claimed: when two fields carry the same serial number,
\* derive_property fails with the duplicate-ordinal panic, it does so
\* before any method is synthesized, and it returns no expansion.
C12_DuplicateOrdinalFailsFirst ==
    (DuplicateOrdinal /\ pc # "derive") =>
        /\ pc # "expanded"
        /\ methods = <<>>
        /\ pc = "panicked" => expanded.panic = PANIC_SAME_SERIAL_NUMBER

\* the methods the composition rule gives the fields, as <<kind, name>>,
\* under the default name formats
RECURSIVE ComposedMethods(_)
ComposedMethods(fields) ==
    IF fields = <<>> THEN <<>>
    ELSE LET f == Head(fields) IN
         (IF f.conf.skip THEN <<>>
          ELSE (IF f.conf.get.vis # "Disable" THEN << <<"get", f.ident>> >> ELSE <<>>)
               \o (IF f.conf.set.vis # "Disable"
                   THEN << <<"set", "set_" \o f.ident>> >> ELSE <<>>)
               \o (IF f.conf.mut_.vis # "Disable"
                   THEN << <<"mut", "mut_" \o f.ident>> >> ELSE <<>>))
         \o ComposedMethods(Tail(fields))

\* C13: the expansion holds, for each field in declaration order that is
\* not skipped, its getter, setter and mutable accessor, each iff its
\* visibility is not Disable; a skipped field gives no method; and the
\* equality and ordering impls follow iff some field, skipped or not,
\* carries a serial number.
C13_OutputComposition ==
    pc = "expanded" =>
        /\ [i \in 1..Len(expanded.methods) |->
               <<expanded.methods[i].kind, expanded.methods[i].name>>]
              = ComposedMethods(property)
        /\ IsSome(expanded.impl_traits) <=>
              \E i \in FieldIndexes : IsSome(property[i].conf.ord.number)
        /\ IsSome(expanded.impl_traits) =>
              /\ Unwrap(expanded.impl_traits).partial_eq_stmt # <<>>
              /\ Unwrap(expanded.impl_traits).partial_ord_stmt # <<>>

\* a type whose skipped first field has every accessor on and a serial
\* number, and whose second field has only its setter on: one method, and
\* the impls
C13_Witness ==
    /\ pc = "expanded"
    /\ Len(property) = 2
    /\ property[1].conf.skip /\ property[1].conf.get.vis = "Crate"
    /\ IsSome(property[1].conf.ord.number)
    /\ ~property[2].conf.skip /\ property[2].conf.ord.number = None
    /\ [i \in 1..Len(expanded.methods) |-> expanded.methods[i].name] = <<"set_b">>
    /\ IsSome(expanded.impl_traits)


-----------------------------------------------------------------------------
(* Claims about the generated comparisons, under SpecCompare.              *)

\* the fields that carry a serial number
OrderedIndexes == {i \in FieldIndexes : IsSome(property[i].conf.ord.number)}

\* the two values of field i in the instances compared
Left(i) == operands[1][property[i].ident]
Right(i) == operands[2][property[i].ident]

\* the serial-numbered fields whose two values are not equal
Differing == {i \in OrderedIndexes : ~field_eq(Left(i), Right(i))}

\* of those, the one with the least serial number
FirstDiffering ==
    CHOOSE i \in Differing :
        \A j \in Differing :
            Unwrap(property[i].conf.ord.number) <= Unwrap(property[j].conf.ord.number)

\* the comparison of the first differing field, operands swapped when the
\* field is descending; Equal when no field differs
Lexicographic ==
    IF Differing = {} THEN Some("Equal")
    ELSE IF property[FirstDiffering].conf.ord.sort_type = "Ascending"
    THEN field_partial_cmp(Left(FirstDiffering), Right(FirstDiffering))
    ELSE field_partial_cmp(Right(FirstDiffering), Left(FirstDiffering))

\* C14: the generated partial_cmp is lexicographic over the fields that
\* carry a serial number, taken by ascending serial number whatever the
\* order of declaration: its result is the comparison of the first such
\* field whose two values are not equal, with the operands swapped when
\* that field is descending, and Equal when all of them are equal.
C14_LexicographicByOrdinal ==
    pc = "compared" => verdict.partial_cmp = Lexicographic

\* the claim's example, declared in reverse: a stands for name and carries
\* _1 descending, b stands for id, carries _0 ascending and is declared
\* after a; (id, name) = (1, 1) against (1, 0) compares as Less
C14_Witness ==
    /\ pc = "compared"
    /\ Len(property) = 2
    /\ property[1].conf.ord = [number |-> Some(1), sort_type |-> "Descending"]
    /\ property[2].conf.ord = [number |-> Some(0), sort_type |-> "Ascending"]
    /\ operands = <<[x \in {"a", "b"} |-> Num(1)],
                    [x \in {"a", "b"} |-> IF x = "a" THEN Num(0) ELSE Num(1)]>>
    /\ verdict.partial_cmp = Some("Less")

\* every serial-numbered field is pairwise equal by the field type's own ==
PairwiseEqual == \A i \in OrderedIndexes : field_eq(Left(i), Right(i))

\* the two instances hold the same data in every serial-numbered field
SameOrdinalData == \A i \in OrderedIndexes : Left(i) = Right(i)

\* no value compared is a NaN: the field values are totally ordered
TotallyOrdered ==
    \A i \in OrderedIndexes : Left(i)[1] = "num" /\ Right(i)[1] = "num"

-----------------------------------------------------------------------------
(* The claim about concurrent invocations, under SpecConcurrent.           *)

\* the set_default_conf calls that returned without a panic
Succeeded ==
    {t \in DOMAIN threads :
        threads[t].op = "set_default_conf" /\ threads[t].pc = "returned"}

\* the resolutions that were handed the built-in default
UsedBuiltIn ==
    {t \in DOMAIN threads :
        threads[t].op = "get_default_conf" /\ threads[t].pc = "returned"
        /\ threads[t].built_in}

\* C21: in every interleaving of the statements of concurrent
\* set_default_conf calls and resolutions, a set_default_conf that returned
\* without a lifecycle error has stored its own configuration as the crate
\* default, the slot is written at most once, and no resolution has used
\* the built-in default in a run in which a set_default_conf succeeded.
C21_SetDefaultAtomicInEveryInterleaving ==
    /\ \A t \in Succeeded : threads[t].wrote /\ CRATE_CONF = threads[t].conf
    /\ \A t, u \in DOMAIN threads : (threads[t].wrote /\ threads[u].wrote) => t = u
    /\ Succeeded # {} => UsedBuiltIn = {}

=============================================================================
